---- MODULE Spec2Model ----
(***************************************************************************)
(* State-machine model of the real-time CertStream listener                *)
(* (CertStreamRealTimeListener, realtime_certstream_listener.js) of        *)
(* DevDestroyer: the WebSocket lifecycle with ping/pong heartbeat and      *)
(* exponential-backoff reconnection, and the classification of the domains *)
(* of every certificate message against the watchlist, the Deep DNA        *)
(* profile and the naming patterns.                                        *)
(*                                                                         *)
(* Strings the code inspects are modelled by their structure:              *)
(*   - a domain name is the sequence of its dot-separated labels           *)
(*     ("whitecat.fun" is <<"whitecat","fun">>, "" is <<>>,                *)
(*     "*.whitecat.fun" is <<"*","whitecat","fun">>);                      *)
(*   - an IPv4 address is the sequence ip.split('.') of its parts, and a   *)
(*     subnet string "a.b.c.0/24" is <<a,b,c,0,24>>;                       *)
(*   - a missing value (null/undefined) of an IP is the empty sequence.    *)
(* Times are in milliseconds.                                              *)
(***************************************************************************)
EXTENDS Integers, Sequences, FiniteSets, TLC

(***************************************************************************)
(* Bounds of the model (not program constants).                            *)
(***************************************************************************)
\* messages delivered by the stream in one behaviour
MaxMessages == 2
\* handleCertificateMessage executions suspended on a DNS lookup at once
MaxInFlight == 2
\* the largest maxRetries argument connect() is called with
MaxRetriesArg == 7
\* granularity of the clock that drives the two heartbeat timers
TickMs == 10000
\* the time without a pong is counted up to this value
MaxQuietMs == 90000
MaxSeedList == 2
\* calls of disconnect() followed after a call of connect()
MaxDisconnectCalls == 2
\* the rows the Python monitor inserts, the executions of poll() followed
\* at once and the messages the bridge hands out
MaxCertIndex == 3
MaxPolls == 2
MaxHanded == 4

(***************************************************************************)
(* Program constants.                                                      *)
(***************************************************************************)
INITIAL_RETRY_DELAY == 1000
MAX_RETRY_DELAY == 30000
PING_INTERVAL == 30000
STALL_CHECK_INTERVAL == 40000
DEFAULT_MAX_RETRIES == 5

Min(a, b) == IF a < b THEN a ELSE b
Max(a, b) == IF a > b THEN a ELSE b

Includes(s, x) == \E i \in DOMAIN s : s[i] = x

(***************************************************************************)
(* The data the model draws its inputs from.                               *)
(***************************************************************************)
NoIP == <<>>
IP_WATCHED == <<159, 198, 65, 253>>
IP_SAME_SUBNET == <<159, 198, 65, 100>>
IP_OTHER == <<8, 8, 8, 8>>
\* what dns.resolve4(domain) can produce: a rejection (NoIP) or addresses[0]
DnsOutcomes == {NoIP, IP_WATCHED, IP_SAME_SUBNET, IP_OTHER}

EMPTY_DOMAIN == <<>>
WILDCARD_FUN == <<"*", "whitecat", "fun">>
WHITECAT_FUN == <<"whitecat", "fun">>
SHOP_COM == <<"shop", "com">>
THEWHITECAT_COM == <<"thewhitecat", "com">>

ISSUER_LE == "Let's Encrypt"
ISSUER_SECTIGO == "Sectigo"

\* entries of extensions.subjectAltName: a string, or something else
SanStr(d) == [isString |-> TRUE, value |-> d]
SanOther == [isString |-> FALSE, value |-> <<>>]

Cert(cn, san, all, hasIssuer, o) ==
    [subjectCN |-> cn, subjectAltName |-> san, all_domains |-> all,
     hasIssuer |-> hasIssuer, issuerO |-> o]

NoCert == Cert(EMPTY_DOMAIN, <<>>, <<>>, FALSE, "")
CertFunLE ==
    Cert(WHITECAT_FUN, <<SanStr(WHITECAT_FUN), SanStr(WILDCARD_FUN)>>,
         <<WHITECAT_FUN, WILDCARD_FUN>>, TRUE, ISSUER_LE)
CertFunSectigo == Cert(WHITECAT_FUN, <<>>, <<>>, TRUE, ISSUER_SECTIGO)
CertShopLE ==
    Cert(SHOP_COM, <<SanOther, SanStr(THEWHITECAT_COM)>>, <<EMPTY_DOMAIN>>,
         TRUE, ISSUER_LE)
CertNoIssuer == Cert(EMPTY_DOMAIN, <<>>, <<WHITECAT_FUN>>, FALSE, "")

\* A text frame of the stream: json is FALSE when JSON.parse throws;
\* hasLeaf says whether data and data.leaf_cert are present.
Msg(json, type, hasLeaf, leaf) ==
    [json |-> json, message_type |-> type, hasLeaf |-> hasLeaf, leaf_cert |-> leaf]

Messages ==
    { Msg(FALSE, "", FALSE, NoCert),
      Msg(TRUE, "heartbeat", FALSE, NoCert),
      Msg(TRUE, "heartbeat", TRUE, CertFunLE),
      Msg(TRUE, "certificate_update", FALSE, NoCert) }
    \cup { Msg(TRUE, "certificate_update", TRUE, c) :
             c \in {CertFunLE, CertFunSectigo, CertShopLE, CertNoIssuer} }

\* cabal_domains_list.txt as loadKnownDomains reads it
KnownDomainsFile == {WHITECAT_FUN}

(***************************************************************************)
(* Pure functions of the listener.                                         *)
(***************************************************************************)
IsFiltered_EmptyOnly(domain) == domain = EMPTY_DOMAIN

\* domain.startsWith('*.') || domain === ''
IsFiltered(domain) ==
    \/ (Len(domain) >= 2 /\ domain[1] = "*")
    \/ domain = EMPTY_DOMAIN

\* this.domainPatterns (the constructor's default): /\.fun$/, /\.xyz$/,
\* /\.site$/, /\.online$/ and the name regular expression, which a label
\* matches when it contains "the" + adjective + animal, in any case.
PatternTLDs == {"fun", "xyz", "site", "online"}
CabalNameLabels == {"thewhitecat", "TheGoldenBull"}

\* this.domainPatterns.some(pattern => pattern.test(domain))
MatchesPattern(domain) ==
    \/ (Len(domain) >= 2 /\ domain[Len(domain)] \in PatternTLDs)
    \/ \E i \in DOMAIN domain : domain[i] \in CabalNameLabels

\* `${parts[0]}.${parts[1]}.${parts[2]}.0/24`
SubnetString(parts) == <<parts[1], parts[2], parts[3], 0, 24>>

isIPWatched_AnyResolved(wl, ip) == wl.present

isIPWatched_DirectOnly(wl, ip) ==
    wl.present /\ Includes(wl.ips, ip)

isIPWatched(wl, ip) ==
    IF ~wl.present THEN FALSE
    ELSE IF Includes(wl.ips, ip) THEN TRUE
    ELSE IF Len(ip) = 4 /\ Includes(wl.subnets, SubnetString(ip)) THEN TRUE
    ELSE FALSE

NoMatch == [type |-> "NONE", confidence |-> "NONE"]

performDeepDNAMatch_PatternFirst(prof, domain, leaf) ==
    IF ~prof.present THEN NoMatch
    ELSE IF MatchesPattern(domain)
         THEN [type |-> "PATTERN_MATCH", confidence |-> "MEDIUM"]
    ELSE IF leaf.hasIssuer /\ leaf.issuerO # ""
            /\ Includes(prof.ssl_issuers, leaf.issuerO)
         THEN [type |-> "SSL_ISSUER_MATCH", confidence |-> "MEDIUM"]
    ELSE NoMatch

\* certData?.leaf_cert?.issuer?.O || null is falsy when the issuer or its O
\* is missing or O is the empty string.
performDeepDNAMatch(prof, domain, leaf) ==
    IF ~prof.present THEN NoMatch
    ELSE IF leaf.hasIssuer /\ leaf.issuerO # ""
            /\ Includes(prof.ssl_issuers, leaf.issuerO)
         THEN [type |-> "SSL_ISSUER_MATCH", confidence |-> "MEDIUM"]
    ELSE IF MatchesPattern(domain)
         THEN [type |-> "PATTERN_MATCH", confidence |-> "MEDIUM"]
    ELSE NoMatch

RECURSIVE DedupFrom(_, _)
DedupFrom(seen, s) ==
    IF s = <<>> THEN <<>>
    ELSE IF Head(s) \in seen THEN DedupFrom(seen, Tail(s))
    ELSE <<Head(s)>> \o DedupFrom(seen \cup {Head(s)}, Tail(s))

\* the strings of a subjectAltName list, in order
RECURSIVE SanStrings(_)
SanStrings(san) ==
    IF san = <<>> THEN <<>>
    ELSE IF Head(san).isString THEN <<Head(san).value>> \o SanStrings(Tail(san))
    ELSE SanStrings(Tail(san))

extractDomainsFromCert_NoDedup(leaf) ==
    (IF leaf.subjectCN # EMPTY_DOMAIN THEN <<leaf.subjectCN>> ELSE <<>>)
    \o SanStrings(leaf.subjectAltName)
    \o leaf.all_domains

\* Array.from(domains) of the Set filled from subject.CN (when truthy), the
\* string SAN entries and all_domains: insertion order, no duplicates.
extractDomainsFromCert(leaf) ==
    DedupFrom({},
        (IF leaf.subjectCN # EMPTY_DOMAIN THEN <<leaf.subjectCN>> ELSE <<>>)
        \o SanStrings(leaf.subjectAltName)
        \o leaf.all_domains)

\* the alert's issuer field: leaf_cert.issuer ? leaf_cert.issuer.O : 'Unknown'
AlertIssuer(leaf) == IF leaf.hasIssuer THEN leaf.issuerO ELSE "Unknown"

NoAlert ==
    [domain |-> <<>>, ip |-> NoIP, issuer |-> "", matchType |-> "NONE",
     confidence |-> "NONE", status |-> "", deepDNA |-> FALSE]

Alert(domain, ip, leaf, matchType, confidence, status, deepDNA) ==
    [domain |-> domain, ip |-> ip, issuer |-> AlertIssuer(leaf),
     matchType |-> matchType, confidence |-> confidence, status |-> status,
     deepDNA |-> deepDNA]

Classify_SkipUnresolved(wl, prof, known, domain, resolvedIP, leaf) ==
    LET deepMatch == performDeepDNAMatch(prof, domain, leaf)
    IN  IF resolvedIP = NoIP THEN NoAlert
        ELSE IF isIPWatched(wl, resolvedIP)
        THEN Alert(domain, resolvedIP, leaf, "IP_MATCH", "CRITICAL", "", FALSE)
        ELSE IF MatchesPattern(domain) /\ domain \notin known
        THEN IF deepMatch # NoMatch
             THEN Alert(domain, resolvedIP, leaf, deepMatch.type,
                        deepMatch.confidence, "", TRUE)
             ELSE Alert(domain, resolvedIP, leaf, "PATTERN_MATCH", "MEDIUM",
                        "PENDING_MANUAL_REVIEW", FALSE)
        ELSE NoAlert

\* One iteration of the loop of processDomains after dns.resolve4 settled:
\* the alert it emits for the domain, or NoAlert.  deepDNA is TRUE when the
\* alert carries deepDNADetails, status is "" when it has no status field.
Classify_PatternFirst(wl, prof, known, domain, resolvedIP, leaf) ==
    LET deepMatch == performDeepDNAMatch(prof, domain, leaf)
    IN  IF MatchesPattern(domain) /\ domain \notin known
        THEN IF deepMatch # NoMatch
             THEN Alert(domain, resolvedIP, leaf, deepMatch.type,
                        deepMatch.confidence, "", TRUE)
             ELSE Alert(domain, resolvedIP, leaf, "PATTERN_MATCH", "MEDIUM",
                        "PENDING_MANUAL_REVIEW", FALSE)
        ELSE IF resolvedIP # NoIP /\ isIPWatched(wl, resolvedIP)
        THEN Alert(domain, resolvedIP, leaf, "IP_MATCH", "CRITICAL", "", FALSE)
        ELSE NoAlert

Classify(wl, prof, known, domain, resolvedIP, leaf) ==
    LET isWatchedIP == IF resolvedIP # NoIP THEN isIPWatched(wl, resolvedIP)
                       ELSE FALSE
        deepMatch == performDeepDNAMatch(prof, domain, leaf)
    IN  IF isWatchedIP
        THEN Alert(domain, resolvedIP, leaf, "IP_MATCH", "CRITICAL", "", FALSE)
        ELSE IF MatchesPattern(domain) /\ domain \notin known
        THEN IF deepMatch # NoMatch
             THEN Alert(domain, resolvedIP, leaf, deepMatch.type,
                        deepMatch.confidence, "", TRUE)
             ELSE Alert(domain, resolvedIP, leaf, "PATTERN_MATCH", "MEDIUM",
                        "PENDING_MANUAL_REVIEW", FALSE)
        ELSE NoAlert

\* the domains of the loop of processDomains from the first one that is not
\* skipped by `continue`
RECURSIVE SkipFiltered(_)
SkipFiltered(doms) ==
    IF doms = <<>> THEN <<>>
    ELSE IF IsFiltered(Head(doms)) THEN SkipFiltered(Tail(doms))
    ELSE doms

IsCertificateUpdate_Never(m) == FALSE

IsCertificateUpdate_AnyType(m) == m.hasLeaf

\* message.message_type === 'certificate_update' && certData && certData.leaf_cert
IsCertificateUpdate(m) ==
    m.message_type = "certificate_update" /\ m.hasLeaf

(***************************************************************************)
(* Pure functions of connect().                                            *)
(***************************************************************************)
ShouldRetry_Never(count, max) == FALSE

ShouldRetry_Inclusive(count, max) == count <= max

\* retryCount < maxRetries
ShouldRetry(count, max) == count < max

NextRetryDelay_NoCap(delay) == delay * 2

\* Math.min(retryDelay * 2, 30000)
NextRetryDelay(delay) == Min(delay * 2, MAX_RETRY_DELAY)

\* the maxRetries arguments connect() is called with
RetryBudgets == {0, DEFAULT_MAX_RETRIES, MaxRetriesArg}

(***************************************************************************)
(* The sites the scraper is pointed at: seed URLs of the research phase    *)
(* and the URLs of alerted domains.                                        *)
(***************************************************************************)
URL_WHITECAT == "https://whitecat.fun"
URL_GOLDENBULL == "https://goldenbull.xyz"
URL_SHOP == "https://shop.com"
\* the site of a domain that is no seed
URL_THEWHITECAT == "https://thewhitecat.com"
\* a string new URL() rejects
URL_INVALID == "https://"

SiteURLs == {URL_WHITECAT, URL_GOLDENBULL, URL_SHOP}
URLs == SiteURLs \cup {URL_INVALID}

\* new URL(url) does not throw
ValidURL(url) == url # URL_INVALID

\* new URL(url).hostname
Hostname(url) ==
    IF url = URL_WHITECAT THEN "whitecat.fun"
    ELSE IF url = URL_GOLDENBULL THEN "goldenbull.xyz"
    ELSE IF url = URL_SHOP THEN "shop.com"
    ELSE IF url = URL_THEWHITECAT THEN "thewhitecat.com"
    ELSE ""

\* addresses[0] when dns.resolve4(hostname) resolves
AddressOf(hostname) ==
    IF hostname = "whitecat.fun" THEN IP_WATCHED
    ELSE IF hostname = "goldenbull.xyz" THEN IP_SAME_SUBNET
    ELSE IP_OTHER

\* this.fingerprints.ssl: not assigned yet, { error: ... }, or the
\* certificate information with issuer.organization
SslUnset == [state |-> "unset", organization |-> ""]
SslError == [state |-> "error", organization |-> ""]
SslInfo(o) == [state |-> "info", organization |-> o]
\* extractSSLFingerprint resolves null
SslNull == [state |-> "null", organization |-> ""]

\* what extractSSLFingerprint(hostname) can resolve with: it never rejects
SslOutcomes(hostname) ==
    {SslNull,
     SslInfo(IF hostname = "shop.com" THEN ISSUER_SECTIGO ELSE ISSUER_LE)}

\* A document: its markup (elements, attributes, style and script
\* references) and its text content.  The body of the HTTP response and
\* page.content() are the document serialised, markup and text together.
Doc(markup, text) == [markup |-> markup, text |-> text]
MARKUP_CABAL == "cabal-template"
MARKUP_SHOP == "shop-template"
EmptyHtml == Doc("", "")

\* the page each site serves: goldenbull.xyz is a clone of whitecat.fun
\* with other visible copy
PageOf(url) ==
    IF url = URL_WHITECAT THEN Doc(MARKUP_CABAL, "The White Cat")
    ELSE IF url = URL_GOLDENBULL THEN Doc(MARKUP_CABAL, "The Golden Bull")
    ELSE IF url = URL_SHOP THEN Doc(MARKUP_SHOP, "Shop")
    ELSE EmptyHtml

\* what the selectors of the extraction layers find in a markup: custom
\* properties of <style>, data-elementor-id, class names, script src, and
\* the two substring tests
MarkupFeatures(markup) ==
    IF markup = MARKUP_CABAL
    THEN [css_vars |-> <<"--cabal-accent", "--e-global-color-primary">>,
          elementor_data_ids |-> <<"1234">>,
          common_class_names |-> <<"elementor", "cabal-hero">>,
          script_hashes |-> <<"https://cdn.cabal/flock.js">>,
          uses_wp_uploads |-> TRUE, uses_tinybird |-> TRUE]
    ELSE IF markup = MARKUP_SHOP
    THEN [css_vars |-> <<"--e-global-color-primary">>,
          elementor_data_ids |-> <<>>,
          common_class_names |-> <<"elementor", "shop-cart">>,
          script_hashes |-> <<"https://shop.com/app.js">>,
          uses_wp_uploads |-> TRUE, uses_tinybird |-> FALSE]
    ELSE [css_vars |-> <<>>, elementor_data_ids |-> <<>>,
          common_class_names |-> <<>>, script_hashes |-> <<>>,
          uses_wp_uploads |-> FALSE, uses_tinybird |-> FALSE]

AllSslOutcomes == UNION {SslOutcomes(Hostname(url)) : url \in SiteURLs}

(***************************************************************************)
(* Pure functions of CabalScraper.                                         *)
(***************************************************************************)
NullHash == <<>>

\* crypto.createHash('sha256').update(x).digest('hex'): the digest is
\* determined by every character of its input; collisions are not modelled
Sha256(htmlContent) == <<"sha256", htmlContent.markup, htmlContent.text>>

\* if (!htmlContent) return null; else the digest of htmlContent
calculateDOMHash(htmlContent) ==
    IF htmlContent = EmptyHtml THEN NullHash ELSE Sha256(htmlContent)

\* the layers array of fingerprintSite, by the extracted_via each reports
Layers_LocalBeforeRemote ==
    <<"AXIOS_CHEERIO", "PLAYWRIGHT_LOCAL", "PLAYWRIGHT_REMOTE">>

Layers == <<"AXIOS_CHEERIO", "PLAYWRIGHT_REMOTE", "PLAYWRIGHT_LOCAL">>

\* { success: false }
FailedExtraction ==
    [success |-> FALSE, dom_hash |-> NullHash, css_vars |-> <<>>,
     elementor_data_ids |-> <<>>, common_class_names |-> <<>>,
     script_hashes |-> <<>>, uses_wp_uploads |-> FALSE,
     uses_tinybird |-> FALSE, extracted_via |-> ""]

\* the object a layer returns when nothing in its try block threw
ExtractionResult(doc, via) ==
    LET f == MarkupFeatures(doc.markup)
    IN  [success |-> TRUE, dom_hash |-> calculateDOMHash(doc),
         css_vars |-> f.css_vars,
         elementor_data_ids |-> f.elementor_data_ids,
         common_class_names |-> f.common_class_names,
         script_hashes |-> f.script_hashes,
         uses_wp_uploads |-> f.uses_wp_uploads,
         uses_tinybird |-> f.uses_tinybird, extracted_via |-> via]

\* this.fingerprints = { url }: structural is FALSE while dom_hash,
\* css_vars, ... extracted_via are undefined, error is "" while undefined
NewFingerprints(url) ==
    [url |-> url, ssl |-> SslUnset, ip |-> NoIP, domain |-> "",
     structural |-> FALSE, dom_hash |-> NullHash, css_vars |-> <<>>,
     elementor_data_ids |-> <<>>, common_class_names |-> <<>>,
     script_hashes |-> <<>>, uses_wp_uploads |-> FALSE,
     uses_tinybird |-> FALSE, extracted_via |-> "", error |-> ""]

\* this.fingerprints.ssl = sslInfo || { error: 'Could not retrieve SSL info' }
WithSsl(fp, sslInfo) ==
    [fp EXCEPT !.ssl = IF sslInfo = SslNull THEN SslError ELSE sslInfo]

\* this.fingerprints.ip = ip; this.fingerprints.domain = hostname
WithAddress(fp, ip, hostname) == [fp EXCEPT !.ip = ip, !.domain = hostname]

\* catch (error) { this.fingerprints.error = error.message }
WithError(fp, message) == [fp EXCEPT !.error = message]

Degraded_KeepsFields(fp) ==
    [fp EXCEPT !.structural = TRUE, !.extracted_via = "DNS_SSL_ONLY"]

\* the fallback of fingerprintSite when every layer failed
Degraded(fp) ==
    [fp EXCEPT !.structural = TRUE, !.dom_hash = NullHash, !.css_vars = <<>>,
               !.elementor_data_ids = <<>>, !.common_class_names = <<>>,
               !.script_hashes = <<>>, !.uses_wp_uploads = FALSE,
               !.uses_tinybird = FALSE, !.extracted_via = "DNS_SSL_ONLY"]

\* the merge of a successful extraction result into this.fingerprints
Merged(fp, r) ==
    [fp EXCEPT !.structural = TRUE, !.dom_hash = r.dom_hash,
               !.css_vars = r.css_vars,
               !.elementor_data_ids = r.elementor_data_ids,
               !.common_class_names = r.common_class_names,
               !.script_hashes = r.script_hashes,
               !.uses_wp_uploads = r.uses_wp_uploads,
               !.uses_tinybird = r.uses_tinybird,
               !.extracted_via = r.extracted_via]

\* if (!extractionResult || !extractionResult.success) ... else ...
Conclude(fp, extractionResult) ==
    IF ~extractionResult.success THEN Degraded(fp)
    ELSE Merged(fp, extractionResult)

\* extractUsingRemoteBrowser: if (!this.remoteBrowserEndpoint) return
\* { success: false }, before chromium.connectOverCDP: TRUE when the layer
\* goes on to connect
RemoteBrowserConnects(endpoint) == endpoint

\* the fingerprint fingerprintSite(url) returns when dns.resolve4(hostname)
\* rejects: the catch block records the error, no layer was invoked
UnresolvedFingerprint(url) ==
    WithError(WithSsl(NewFingerprints(url), SslNull), "queryA ENOTFOUND")

\* the fingerprint fingerprintSite(url) returns for each site during a
\* research run: whitecat.fun and goldenbull.xyz are extracted by layer 1,
\* every layer fails on shop.com, and one seed is no URL
SiteFingerprint(url) ==
    LET hostname == Hostname(url)
        issuer == IF url = URL_SHOP THEN ISSUER_SECTIGO ELSE ISSUER_LE
        probed == WithAddress(WithSsl(NewFingerprints(url), SslInfo(issuer)),
                              AddressOf(hostname), hostname)
    IN  IF ~ValidURL(url)
        THEN WithError(NewFingerprints(url), "Invalid URL")
        ELSE IF url = URL_SHOP THEN Conclude(probed, FailedExtraction)
        ELSE Conclude(probed, ExtractionResult(PageOf(url), Layers[1]))

(***************************************************************************)
(* Pure functions of ResearchMode.                                         *)
(***************************************************************************)
NoSubnet == <<>>

extractSubnet_KeepsHost(ip) ==
    IF Len(ip) # 4 THEN NoSubnet ELSE <<ip[1], ip[2], ip[3], ip[4], 24>>

\* extractSubnet(ip): null unless ip has four dot-separated parts
extractSubnet(ip) == IF Len(ip) # 4 THEN NoSubnet ELSE SubnetString(ip)

\* ResearchMode.isIPWatched(ip): direct match, else match of the /24
rmIsIPWatched(wl, ip) ==
    IF Includes(wl.ips, ip) THEN TRUE
    ELSE IF Len(ip) = 4 /\ Includes(wl.subnets, SubnetString(ip)) THEN TRUE
    ELSE FALSE

AppendNew_KeepLast(list, x) == <<x>>

\* if (!list.includes(x)) list.push(x)
AppendNew(list, x) == IF Includes(list, x) THEN list ELSE Append(list, x)

\* xs.forEach(x => { if (!list.includes(x)) list.push(x) })
RECURSIVE MergeInto(_, _)
MergeInto(list, xs) ==
    IF xs = <<>> THEN list
    ELSE MergeInto(AppendNew(list, Head(xs)), Tail(xs))

ProfileFailed_Never(fp) == FALSE

\* profileURL: if (fingerprints.error) return null
ProfileFailed(fp) == fp.error # ""

\* the dnaEntry profileURL builds from the fingerprint (fingerprinted_at,
\* the time of the run, is left out)
DnaEntry(url, fp) ==
    [url |-> url, ip |-> fp.ip,
     subnet |-> IF fp.ip # NoIP THEN extractSubnet(fp.ip) ELSE NoSubnet,
     dom_hash |-> fp.dom_hash, css_vars |-> fp.css_vars,
     elementor_data_ids |-> fp.elementor_data_ids,
     common_class_names |-> fp.common_class_names,
     script_hashes |-> fp.script_hashes,
     uses_wordpress |-> fp.uses_wp_uploads,
     uses_tinybird |-> fp.uses_tinybird, ssl_info |-> fp.ssl]

\* the profile loadProfile() returns when no profile was saved: seed_urls,
\* infrastructure.ips / .subnets and the lists of deep_dna (profile_name
\* and created_at are left out)
EmptyProfile ==
    [present |-> TRUE, seed_urls |-> <<>>, ips |-> <<>>, subnets |-> <<>>,
     ssl_issuers |-> <<>>, css_variables |-> <<>>, script_hashes |-> <<>>,
     dom_hashes |-> <<>>, elementor_data_ids |-> <<>>,
     common_class_names |-> <<>>, tracking_scripts |-> <<>>]

\* the watchlist loadWatchlist() returns when none was saved
EmptyWatchlist ==
    [present |-> TRUE, ips |-> <<>>, subnets |-> <<>>, fingerprints |-> <<>>]

\* profileURL: the merge of a dnaEntry into this.profile.deep_dna
MergeDna(prof, dna) ==
    [prof EXCEPT
       !.ssl_issuers = IF dna.ssl_info.state = "info"
                       THEN AppendNew(@, dna.ssl_info.organization) ELSE @,
       !.css_variables = MergeInto(@, dna.css_vars),
       !.script_hashes = MergeInto(@, dna.script_hashes),
       !.dom_hashes = IF dna.dom_hash # NullHash
                      THEN AppendNew(@, dna.dom_hash) ELSE @,
       !.elementor_data_ids = MergeInto(@, dna.elementor_data_ids),
       !.common_class_names = MergeInto(@, dna.common_class_names),
       !.tracking_scripts = IF dna.uses_tinybird
                            THEN AppendNew(@, "flock.js") ELSE @]

\* profileSeedURLs: the loop body's update of this.watchlist
Watch(wl, dna) ==
    [wl EXCEPT
       !.ips = IF dna.ip # NoIP THEN AppendNew(@, dna.ip) ELSE @,
       !.subnets = IF dna.subnet # NoSubnet THEN AppendNew(@, dna.subnet)
                   ELSE @,
       !.fingerprints = Append(@, dna)]

\* profileSeedURLs: the loop body's update of this.profile
Infrastructure(prof, url, dna) ==
    [prof EXCEPT
       !.seed_urls = AppendNew(@, url),
       !.ips = IF dna.ip # NoIP THEN AppendNew(@, dna.ip) ELSE @,
       !.subnets = IF dna.subnet # NoSubnet THEN AppendNew(@, dna.subnet)
                   ELSE @]

NewURLs_Unfiltered(urls, researched) == urls

\* urls.filter(url => !this.researchedURLs.includes(url))
RECURSIVE NewURLs(_, _)
NewURLs(urls, researched) ==
    IF urls = <<>> THEN <<>>
    ELSE IF Includes(researched, Head(urls))
         THEN NewURLs(Tail(urls), researched)
    ELSE <<Head(urls)>> \o NewURLs(Tail(urls), researched)

\* urls.filter(url => this.researchedURLs.includes(url))
RECURSIVE SkippedURLs(_, _)
SkippedURLs(urls, researched) ==
    IF urls = <<>> THEN <<>>
    ELSE IF Includes(researched, Head(urls))
         THEN <<Head(urls)>> \o SkippedURLs(Tail(urls), researched)
    ELSE SkippedURLs(Tail(urls), researched)

\* loadWatchlist(): the saved watchlist, or an empty one when no file exists
loadWatchlist(file) == IF file.present THEN file ELSE EmptyWatchlist

\* loadProfile(): the saved profile, or an empty one when no file exists
loadProfile(file) == IF file.present THEN file ELSE EmptyProfile

\* what matchFingerprints returns: null, or { type, knownURL, ... }
NoMatchResult == [type |-> "null", knownURL |-> ""]
MatchResult(type, known) == [type |-> type, knownURL |-> known.url]

\* the loop of matchFingerprints over this.watchlist.fingerprints: the
\* first known fingerprint with the same dom_hash or a shared CSS variable
RECURSIVE MatchKnown(_, _)
MatchKnown(knownList, newFingerprints) ==
    IF knownList = <<>> THEN NoMatchResult
    ELSE LET known == Head(knownList)
         IN  IF known.dom_hash = newFingerprints.dom_hash
             THEN MatchResult("dom_match", known)
             ELSE IF \E v \in DOMAIN newFingerprints.css_vars :
                        Includes(known.css_vars, newFingerprints.css_vars[v])
             THEN MatchResult("css_match", known)
             ELSE MatchKnown(Tail(knownList), newFingerprints)

\* matchFingerprints(newDomain), given what fingerprintSite returned
matchFingerprints(wl, newFingerprints) ==
    IF newFingerprints.error # "" THEN NoMatchResult
    ELSE MatchKnown(wl.fingerprints, newFingerprints)

\* `https://${alert.domain}`
DomainURL(domain) ==
    IF domain = WHITECAT_FUN THEN URL_WHITECAT
    ELSE IF domain = SHOP_COM THEN URL_SHOP
    ELSE IF domain = THEWHITECAT_COM THEN URL_THEWHITECAT
    ELSE IF domain = WILDCARD_FUN THEN "https://*.whitecat.fun"
    ELSE URL_INVALID

\* what fingerprintSite(url) can return while the bot listens: the host
\* does not resolve, every layer fails, or a layer extracts the page the
\* host serves, here the page of whitecat.fun
ServedPages == {PageOf(URL_WHITECAT)}
VerificationResults(url) ==
    LET probed == WithAddress(WithSsl(NewFingerprints(url), SslInfo(ISSUER_LE)),
                              IP_WATCHED, Hostname(url))
    IN  {WithError(WithSsl(NewFingerprints(url), SslNull),
                   "queryA ENOTFOUND")}
        \cup {Conclude(probed, FailedExtraction)}
        \cup {Conclude(probed, ExtractionResult(page, Layers[1])) :
                page \in ServedPages}
AllVerificationResults ==
    UNION {VerificationResults(DomainURL(d)) :
             d \in {WHITECAT_FUN, SHOP_COM, THEWHITECAT_COM}}

(***************************************************************************)
(* What the bot hands to the listener at the DNA lock: the watchlist and   *)
(* the profile Research Mode saved after profiling https://whitecat.fun.   *)
(***************************************************************************)
\* this.watchlist: null, or the watchlist written by Research Mode
NoWatchlist == [EmptyWatchlist EXCEPT !.present = FALSE]
ResearchWatchlist ==
    Watch(EmptyWatchlist,
          DnaEntry(URL_WHITECAT, SiteFingerprint(URL_WHITECAT)))
Watchlists == {ResearchWatchlist}

\* this.profile: null, or a profile with deep_dna.ssl_issuers
NoProfile == [EmptyProfile EXCEPT !.present = FALSE]
ResearchProfile ==
    LET dna == DnaEntry(URL_WHITECAT, SiteFingerprint(URL_WHITECAT))
    IN  Infrastructure(MergeDna(EmptyProfile, dna), URL_WHITECAT, dna)
Profiles == {ResearchProfile, EmptyProfile}



(***************************************************************************)
(* State.                                                                  *)
(***************************************************************************)
VARIABLES
    \* fields of the listener
    knownCabalDomains, watchlist, profile, isConnected, messageCount,
    detectedCount,
    \* readyState of this.ws: "none" (this.ws is null), "connecting", "open",
    \* "closing" (close()/terminate() called or an error raised, the 'close'
    \* event not yet delivered), "closed"
    wsState,
    \* the closure of connect(): started says connect() was called
    started, maxRetries, retryCount, retryDelay, isAlive, pingInterval,
    stallCheckInterval,
    \* readyState of the WebSocket an earlier call of connect() created and
    \* this.ws no longer refers to; "none" when there is no such socket
    supersededWs,
    \* the pending reconnect setTimeout: 0 when there is none, else its delay
    reconnectTimer,
    \* time left until the ping / stall-check interval fires next, time since
    \* the last pong (or the open), and whether a ping awaits its pong
    pingIn, stallIn, sincePong, pingOutstanding,
    \* the executions of handleCertificateMessage suspended in
    \* await dns.resolve4(domain): the certificate and the domains left,
    \* the first of which is being resolved
    inflight,
    \* what emit('cabal_detected', alert) handed out and saveAlert stored
    emitted, alertsFile,
    \* history: messages delivered, the current transport is a reconnect
    \* attempt / has opened, reconnect attempts made and failed since the
    \* last open, the calls of disconnect() since connect(), the last
    \* classification
    delivered, wsIsRetry, wsOpened, attemptsSinceOpen, failedReconnects,
    disconnectCalls, lastClass, lastMsg

VARIABLES
    \* CabalScraper: whether BROWSER_ENDPOINT was set at construction
    remoteBrowserEndpoint,
    \* this.fingerprints: "none" for the {} of the constructor, else the
    \* call whose `this.fingerprints = { url }` created the object it is
    fingerprints,
    \* the objects created by the calls of fingerprintSite, by call
    fpObj,
    \* the calls of fingerprintSite: where each is suspended, its url, the
    \* index of the layer it awaits; and as history the layers it invoked,
    \* what each reported, whether it connected to the remote browser, the
    \* object it returned and that object as it was at the return
    fpCalls

VARIABLES
    \* ResearchMode: this.watchlist, this.profile, this.researchedURLs
    rmWatchlist, rmProfile, researchedURLs,
    \* target_watchlist.json, cabal_profile.json (present is FALSE while the
    \* file does not exist) and researched_seed_urls.txt
    watchlistFile, profileFile, researchedFile,
    \* the run of profileSeedURLs in progress: the new URLs not profiled
    \* yet, fingerprintSite of the first of them is awaited; <<>> when no
    \* run is in progress
    seedQueue,
    \* history of the last call of profileSeedURLs: urls.length,
    \* skippedURLs.length and newURLs.length as the call logs them, a bit
    \* that flips with every call, and whether the fingerprint of the URL
    \* the call profiled last had an error
    seedCall

VARIABLES
    \* TargetedListenerBot: how far start() has come
    botPhase,
    \* this.listeners of the listener: the callbacks registered for
    \* 'cabal_detected'
    listeners,
    \* the executions of handleCabalDetection, one per alert handed to it:
    \* the alert, where the execution is suspended, the fingerprint its
    \* own scrape returned
    verifications,
    \* cabal_detections.jsonl
    detectionLog

VARIABLES
    \* PythonCertStreamBridge (this.bridge of the bridged bot): this.isPolling,
    \* this.db (FALSE while it is null), this.lastProcessedCertIndex, and
    \* lastCertIndex of .bridge_state.json (NoIndex while no file exists)
    isPolling, db, lastProcessedCertIndex, bridgeState,
    \* the table certificates of certstream.db, by cert_index: "absent",
    \* "unprocessed" (processed = 0) or "processed"
    certificates,
    \* the executions of poll() that have not ended: where each is suspended
    \* ("fetching", "handling", "marking", or "sleeping" until its timer
    \* fires) and the rows it has left, the first of which it works on
    polls,
    \* history: the cert_index of every message handed to onCertificate
    handed

listenerVars == <<knownCabalDomains, watchlist, profile, messageCount,
                  detectedCount, inflight, emitted, alertsFile, delivered,
                  lastClass, lastMsg>>
timeVars == <<pingIn, stallIn, sincePong, pingOutstanding>>
connVars == <<isConnected, wsState, started, supersededWs,
              maxRetries, retryCount,
              retryDelay, isAlive, pingInterval, stallCheckInterval,
              reconnectTimer, wsIsRetry, wsOpened, attemptsSinceOpen,
              failedReconnects, disconnectCalls>>
scraperVars == <<remoteBrowserEndpoint, fingerprints, fpObj, fpCalls>>
researchVars == <<rmWatchlist, rmProfile, researchedURLs, watchlistFile,
                  profileFile, researchedFile, seedQueue, seedCall>>
bridgeVars == <<isPolling, db, lastProcessedCertIndex, bridgeState,
                certificates, polls, handed>>
botVars == <<botPhase, listeners, verifications, detectionLog, bridgeVars>>
vars == <<listenerVars, timeVars, connVars, scraperVars, researchVars,
          botVars>>

\* the executions that call fingerprintSite on one scraper: each awaits it,
\* two of them can overlap
ScraperCallers == {"A", "B"}

NoCall ==
    [pc |-> "idle", url |-> "", layer |-> 0, invoked |-> <<>>,
     reported |-> <<>>, connected |-> FALSE, ref |-> "none",
     result |-> NewFingerprints("")]

\* this.lastProcessedCertIndex = -1
NoIndex == -1

NoClass == [domain |-> <<>>, ip |-> NoIP, leaf |-> NoCert, known |-> FALSE,
            alert |-> NoAlert, done |-> FALSE]
NoMsg == Msg(FALSE, "none", FALSE, NoCert)

\* the state after the constructors of the listener, the scraper, Research
\* Mode (no file saved yet) and the bot
Init ==
    /\ knownCabalDomains = {}
    /\ watchlist = NoWatchlist
    /\ profile = NoProfile
    /\ isConnected = FALSE
    /\ messageCount = 0
    /\ detectedCount = 0
    /\ wsState = "none"
    /\ started = FALSE
    /\ supersededWs = "none"
    /\ maxRetries = 0
    /\ retryCount = 0
    /\ retryDelay = 0
    /\ isAlive = FALSE
    /\ pingInterval = FALSE
    /\ stallCheckInterval = FALSE
    /\ reconnectTimer = 0
    /\ pingIn = 0
    /\ stallIn = 0
    /\ sincePong = 0
    /\ pingOutstanding = FALSE
    /\ inflight = <<>>
    /\ emitted = <<>>
    /\ alertsFile = <<>>
    /\ delivered = 0
    /\ wsIsRetry = FALSE
    /\ wsOpened = FALSE
    /\ attemptsSinceOpen = 0
    /\ failedReconnects = 0
    /\ disconnectCalls = 0
    /\ lastClass = NoClass
    /\ lastMsg = NoMsg
    /\ remoteBrowserEndpoint \in BOOLEAN
    /\ fingerprints = "none"
    /\ fpObj = [c \in ScraperCallers |-> NewFingerprints("")]
    /\ fpCalls = [c \in ScraperCallers |-> NoCall]
    /\ rmWatchlist = EmptyWatchlist
    /\ rmProfile = EmptyProfile
    /\ researchedURLs = <<>>
    /\ watchlistFile = NoWatchlist
    /\ profileFile = NoProfile
    /\ researchedFile = <<>>
    /\ seedQueue = <<>>
    /\ seedCall = [urls |-> 0, skippedURLs |-> 0, newURLs |-> 0,
                   parity |-> FALSE, failed |-> FALSE]
    /\ botPhase = "created"
    /\ listeners = <<>>
    /\ verifications = <<>>
    /\ detectionLog = <<>>
    /\ isPolling = FALSE
    /\ db = FALSE
    /\ lastProcessedCertIndex = NoIndex
    /\ bridgeState = NoIndex
    /\ certificates = [k \in 1..MaxCertIndex |-> "absent"]
    /\ polls = <<>>
    /\ handed = <<>>

(***************************************************************************)
(* DNA lock: the bot hands the watchlist and the profile to the listener   *)
(* before it connects.                                                     *)
(***************************************************************************)
setWatchlist(w) ==
    /\ ~started
    /\ watchlist = NoWatchlist
    /\ watchlist' = w
    /\ UNCHANGED <<knownCabalDomains, profile, messageCount, detectedCount,
                   inflight, emitted, alertsFile, delivered, lastClass,
                   lastMsg, timeVars, connVars,
                   scraperVars, researchVars, botVars>>

setProfile(p) ==
    /\ ~started
    /\ profile = NoProfile
    /\ profile' = p
    /\ UNCHANGED <<knownCabalDomains, watchlist, messageCount, detectedCount,
                   inflight, emitted, alertsFile, delivered, lastClass,
                   lastMsg, timeVars, connVars,
                   scraperVars, researchVars, botVars>>

loadKnownDomains ==
    /\ ~started
    /\ knownCabalDomains' = knownCabalDomains \cup KnownDomainsFile
    /\ UNCHANGED <<watchlist, profile, messageCount, detectedCount,
                   inflight, emitted, alertsFile, delivered, lastClass,
                   lastMsg, timeVars, connVars,
                   scraperVars, researchVars, botVars>>

(***************************************************************************)
(* connect(maxRetries) and the handlers it installs.                       *)
(***************************************************************************)
\* attemptConnection(): this.ws = new WebSocket(WEBSOCKET_URL)
attemptConnection(isRetry) ==
    /\ wsState' = "connecting"
    /\ wsIsRetry' = isRetry
    /\ wsOpened' = FALSE

connect(max) ==
    /\ ~started
    /\ started' = TRUE
    /\ maxRetries' = max
    /\ retryCount' = 0
    /\ retryDelay' = INITIAL_RETRY_DELAY
    /\ isAlive' = TRUE
    /\ pingInterval' = FALSE
    /\ stallCheckInterval' = FALSE
    /\ attemptConnection(FALSE)
    /\ attemptsSinceOpen' = 0
    /\ failedReconnects' = 0
    /\ disconnectCalls' = 0
    /\ UNCHANGED <<isConnected, supersededWs, reconnectTimer, listenerVars,
                   timeVars, scraperVars, researchVars>>

\* a later call of connect(max), made while no reconnect is scheduled: a
\* new closure with its own counters and intervals, and this.ws replaced
\* by a new WebSocket.  The socket this.ws referred to is not closed: it
\* and the handlers and intervals of the closure that created it live on.
\* The model records its readyState and does not follow the events of the
\* superseded closure.
connectAgain(max) ==
    /\ started
    /\ supersededWs = "none"
    /\ reconnectTimer = 0
    /\ supersededWs' = IF wsState \in {"connecting", "open", "closing"}
                       THEN wsState ELSE "none"
    /\ maxRetries' = max
    /\ retryCount' = 0
    /\ retryDelay' = INITIAL_RETRY_DELAY
    /\ isAlive' = TRUE
    /\ pingInterval' = FALSE
    /\ stallCheckInterval' = FALSE
    /\ pingIn' = 0
    /\ stallIn' = 0
    /\ sincePong' = 0
    /\ pingOutstanding' = FALSE
    /\ attemptConnection(FALSE)
    /\ attemptsSinceOpen' = 0
    /\ failedReconnects' = 0
    /\ disconnectCalls' = 0
    /\ UNCHANGED <<isConnected, started, reconnectTimer, listenerVars,
                   scraperVars, researchVars, botVars>>

\* ws.on('open')
WsOpen ==
    /\ wsState = "connecting"
    /\ wsState' = "open"
    /\ isConnected' = TRUE
    /\ isAlive' = TRUE
    /\ retryCount' = 0
    /\ retryDelay' = INITIAL_RETRY_DELAY
    /\ pingInterval' = TRUE
    /\ stallCheckInterval' = TRUE
    /\ pingIn' = PING_INTERVAL
    /\ stallIn' = STALL_CHECK_INTERVAL
    /\ sincePong' = 0
    /\ pingOutstanding' = FALSE
    /\ wsOpened' = TRUE
    /\ attemptsSinceOpen' = 0
    /\ failedReconnects' = 0
    /\ UNCHANGED <<started, supersededWs, maxRetries, reconnectTimer, wsIsRetry,
                   disconnectCalls, listenerVars,
                   scraperVars, researchVars, botVars>>

\* ws.on('error'): the transport fails (refused, TLS failure, reset); the ws
\* library delivers 'close' after it
WsError ==
    /\ wsState \in {"connecting", "open"}
    /\ wsState' = "closing"
    /\ isConnected' = FALSE
    /\ UNCHANGED <<started, supersededWs, maxRetries, retryCount, retryDelay,
                   isAlive,
                   pingInterval, stallCheckInterval, reconnectTimer, wsIsRetry,
                   wsOpened, attemptsSinceOpen, failedReconnects,
                   disconnectCalls, listenerVars, timeVars,
                   scraperVars, researchVars, botVars>>

WsClose_KeepsIntervals ==
    /\ wsState \in {"open", "closing"}
    /\ wsState' = "closed"
    /\ isConnected' = FALSE
    /\ isAlive' = FALSE
    /\ pingInterval' = pingInterval
    /\ stallCheckInterval' = stallCheckInterval
    /\ pingIn' = 0
    /\ stallIn' = 0
    /\ sincePong' = 0
    /\ pingOutstanding' = FALSE
    /\ IF ShouldRetry(retryCount, maxRetries)
       THEN /\ retryCount' = retryCount + 1
            /\ reconnectTimer' = retryDelay
       ELSE /\ retryCount' = retryCount
            /\ reconnectTimer' = reconnectTimer
    /\ failedReconnects' =
          IF wsIsRetry /\ ~wsOpened THEN failedReconnects + 1
          ELSE failedReconnects
    /\ UNCHANGED <<started, supersededWs,
                   maxRetries, retryDelay, wsIsRetry, wsOpened,
                   attemptsSinceOpen, disconnectCalls, listenerVars,
                   scraperVars, researchVars, botVars>>

\* ws.on('close'): after an error, close() or terminate(), or because the
\* server closed an open connection
WsClose ==
    /\ wsState \in {"open", "closing"}
    /\ wsState' = "closed"
    /\ isConnected' = FALSE
    /\ isAlive' = FALSE
    /\ pingInterval' = FALSE
    /\ stallCheckInterval' = FALSE
    /\ pingIn' = 0
    /\ stallIn' = 0
    /\ sincePong' = 0
    /\ pingOutstanding' = FALSE
    /\ IF ShouldRetry(retryCount, maxRetries)
       THEN /\ retryCount' = retryCount + 1
            /\ reconnectTimer' = retryDelay
       ELSE /\ retryCount' = retryCount
            /\ reconnectTimer' = reconnectTimer
    /\ failedReconnects' =
          IF wsIsRetry /\ ~wsOpened THEN failedReconnects + 1
          ELSE failedReconnects
    /\ UNCHANGED <<started, supersededWs,
                   maxRetries, retryDelay, wsIsRetry, wsOpened,
                   attemptsSinceOpen, disconnectCalls, listenerVars,
                   scraperVars, researchVars, botVars>>

\* the callback of the reconnect setTimeout
ReconnectTimer ==
    /\ reconnectTimer # 0
    /\ reconnectTimer' = 0
    /\ retryDelay' = NextRetryDelay(retryDelay)
    /\ attemptConnection(TRUE)
    /\ attemptsSinceOpen' = attemptsSinceOpen + 1
    /\ UNCHANGED <<isConnected, started, supersededWs,
                   maxRetries, retryCount, isAlive,
                   pingInterval, stallCheckInterval, failedReconnects,
                   disconnectCalls, listenerVars, timeVars,
                   scraperVars, researchVars, botVars>>

CloseTransport_Escalates(state) ==
    IF state \in {"open", "connecting"} THEN "closing"
    ELSE IF state = "closing" THEN "closed" ELSE state

\* ws.close() as the ws library does it: nothing on a closed or closing
\* socket, the closing handshake on an open one, the handshake aborted on a
\* connecting one; the 'close' event follows
CloseTransport(state) ==
    IF state \in {"open", "connecting"} THEN "closing" ELSE state

\* disconnect(): if (this.ws) { this.ws.close(); this.isConnected = false; }
disconnect ==
    /\ disconnectCalls < MaxDisconnectCalls
    /\ IF wsState # "none"
       THEN /\ wsState' = CloseTransport(wsState)
            /\ isConnected' = FALSE
       ELSE UNCHANGED <<wsState, isConnected>>
    /\ disconnectCalls' = disconnectCalls + 1
    /\ UNCHANGED <<started, supersededWs, maxRetries, retryCount, retryDelay,
                   isAlive,
                   pingInterval, stallCheckInterval, reconnectTimer, wsIsRetry,
                   wsOpened, attemptsSinceOpen, failedReconnects,
                   listenerVars, timeVars,
                   scraperVars, researchVars, botVars>>

(***************************************************************************)
(* The heartbeat timers.                                                   *)
(***************************************************************************)
\* time passes while the intervals run and none of them is due (time is
\* not followed while the intervals of a superseded closure run as well)
Tick ==
    /\ supersededWs = "none"
    /\ pingInterval /\ stallCheckInterval
    /\ pingIn > 0 /\ stallIn > 0
    /\ pingIn' = Max(0, pingIn - TickMs)
    /\ stallIn' = Max(0, stallIn - TickMs)
    /\ sincePong' = Min(sincePong + TickMs, MaxQuietMs)
    /\ UNCHANGED <<pingOutstanding, listenerVars, connVars,
                   scraperVars, researchVars, botVars>>

\* the callback of pingInterval
PingTimer ==
    /\ pingInterval /\ pingIn = 0
    /\ pingIn' = PING_INTERVAL
    /\ pingOutstanding' = (pingOutstanding \/ wsState = "open")
    /\ UNCHANGED <<stallIn, sincePong, listenerVars, connVars,
                   scraperVars, researchVars, botVars>>

\* ws.terminate(): destroys the socket of a live transport
TerminateTransport(state) ==
    IF state \in {"open", "connecting"} THEN "closing" ELSE state

\* if (!isAlive)
StallDetected(alive) == ~alive

\* the callback of stallCheckInterval
StallCheck ==
    /\ stallCheckInterval /\ stallIn = 0
    /\ stallIn' = STALL_CHECK_INTERVAL
    /\ wsState' = IF StallDetected(isAlive) THEN TerminateTransport(wsState)
                  ELSE wsState
    /\ isAlive' = FALSE
    /\ UNCHANGED <<isConnected, started, supersededWs,
                   maxRetries, retryCount, retryDelay,
                   pingInterval, stallCheckInterval, reconnectTimer, wsIsRetry,
                   wsOpened, attemptsSinceOpen, failedReconnects,
                   disconnectCalls, pingIn, sincePong, pingOutstanding,
                   listenerVars,
                   scraperVars, researchVars, botVars>>

\* ws.on('pong'): the server answers a ping
WsPong ==
    /\ wsState = "open"
    /\ pingOutstanding
    /\ pingOutstanding' = FALSE
    /\ isAlive' = TRUE
    /\ sincePong' = 0
    /\ UNCHANGED <<isConnected, wsState, started, supersededWs,
                   maxRetries, retryCount,
                   retryDelay, pingInterval, stallCheckInterval,
                   reconnectTimer, wsIsRetry, wsOpened, attemptsSinceOpen,
                   failedReconnects, disconnectCalls, pingIn, stallIn,
                   listenerVars,
                   scraperVars, researchVars, botVars>>

(***************************************************************************)
(* Message handling.                                                       *)
(***************************************************************************)
\* no continuation of `await this.performDeepDNAMatch(...)` is waiting in
\* the microtask queue: frames, timers and the answers of other I/O are
\* dispatched only then
MicrotasksDrained == \A i \in DOMAIN inflight : inflight[i].pending = NoAlert

\* handleCertificateMessage(data) up to its first await (or its end):
\* JSON.parse, the counter, extractDomainsFromCert and the loop of
\* processDomains up to the first dns.resolve4
handleCertificateMessage(m) ==
    /\ delivered' = delivered + 1
    /\ lastMsg' = m
    /\ IF ~m.json
       THEN UNCHANGED <<messageCount, inflight>>
       ELSE /\ messageCount' = messageCount + 1
            /\ IF IsCertificateUpdate(m)
               THEN LET doms == SkipFiltered(extractDomainsFromCert(m.leaf_cert))
                    IN  inflight' =
                          IF doms = <<>> THEN inflight
                          ELSE Append(inflight,
                                      [leaf |-> m.leaf_cert, doms |-> doms,
                                       pending |-> NoAlert])
               ELSE inflight' = inflight
    /\ UNCHANGED <<knownCabalDomains, watchlist, profile, detectedCount,
                   emitted, alertsFile, lastClass, timeVars, connVars,
                   scraperVars, researchVars, botVars>>

\* ws.on('message'): the frame is handed to handleCertificateMessage, which
\* is not awaited
WsMessage(m) ==
    /\ wsState = "open"
    /\ MicrotasksDrained
    /\ delivered < MaxMessages
    /\ Len(inflight) < MaxInFlight
    /\ handleCertificateMessage(m)

\* the record handleCabalDetection appends to cabal_detections.jsonl:
\* fingerprintMatch is "" when the record has no such field, "null" when
\* matchFingerprints returned null, else the type of the match; dom_hash
\* is that of newFingerprints
Detection(alert, status, fingerprintMatch, dom_hash) ==
    [domain |-> alert.domain, ip |-> alert.ip, matchType |-> alert.matchType,
     confidence |-> alert.confidence, status |-> status,
     fingerprintMatch |-> fingerprintMatch, dom_hash |-> dom_hash]

\* the detection logged for a PATTERN_MATCH alert
PatternDetection(alert) ==
    Detection(alert, "PENDING_MANUAL_REVIEW", "", NullHash)

handleCabalDetection_Awaited(alert) ==
    [alert |-> alert, pc |-> "done", newFingerprints |-> NewFingerprints("")]

\* handleCabalDetection(alert) up to its first await: for IP_MATCH it calls
\* this.scraper.fingerprintSite and is suspended, for PATTERN_MATCH it has
\* logged the detection, for any other match type it does nothing
handleCabalDetection(alert) ==
    [alert |-> alert,
     pc |-> IF alert.matchType = "IP_MATCH" THEN "fingerprinting" ELSE "done",
     newFingerprints |-> NewFingerprints("")]

RemoveAt(s, i) == SubSeq(s, 1, i - 1) \o SubSeq(s, i + 1, Len(s))

\* the end of one iteration of the loop of processDomains in execution i:
\* for an alert detectedCount++, knownCabalDomains.add, emit() and
\* saveAlert(), then the loop up to the next dns.resolve4 or its end.
\* emit() calls the registered callbacks and saveAlert appends to
\* cabal_detections_realtime.json.  The callback the bot registered,
\* handleCabalDetection, runs inside emit() up to its first await.
\* known is what knownCabalDomains.has(domain) gave when the loop read it.
\* written is FALSE when fs.writeFileSync in saveAlert throws: nothing in
\* processDomains catches, the loop is left and the catch block of
\* handleCertificateMessage ends the execution.
EndIteration(i, ip, known, alert, written) ==
    LET h == inflight[i]
        domain == Head(h.doms)
        rest == SkipFiltered(Tail(h.doms))
    IN  /\ lastClass' = [domain |-> domain, ip |-> ip, leaf |-> h.leaf,
                         known |-> known, alert |-> alert, done |-> TRUE]
        /\ IF alert # NoAlert
           THEN /\ detectedCount' = detectedCount + 1
                /\ knownCabalDomains' = knownCabalDomains \cup {domain}
                /\ emitted' = Append(emitted, alert)
                /\ alertsFile' = IF written THEN Append(alertsFile, alert)
                                ELSE alertsFile
           ELSE UNCHANGED <<detectedCount, knownCabalDomains, emitted,
                            alertsFile>>
        /\ inflight' = IF rest = <<>> \/ (alert # NoAlert /\ ~written)
                       THEN RemoveAt(inflight, i)
                       ELSE [inflight EXCEPT ![i].doms = rest,
                                             ![i].pending = NoAlert]
        /\ IF alert # NoAlert /\ listeners # <<>>
           THEN /\ verifications' =
                     Append(verifications, handleCabalDetection(alert))
                /\ detectionLog' =
                     IF alert.matchType = "PATTERN_MATCH"
                     THEN Append(detectionLog, PatternDetection(alert))
                     ELSE detectionLog
           ELSE UNCHANGED <<verifications, detectionLog>>
        /\ UNCHANGED <<watchlist, profile, messageCount, delivered, lastMsg,
                       timeVars, connVars, botPhase, listeners,
                       scraperVars, researchVars, bridgeVars>>

\* dns.resolve4 of the execution i settles with ip (NoIP: it rejected): the
\* rest of the loop body of processDomains for that domain.  In the IP
\* branch, or when no branch is taken, the iteration ends in this step.  In
\* the pattern branch knownCabalDomains.has(domain) was read, the call of
\* performDeepDNAMatch ran to its return (it awaits nothing) and the
\* execution is suspended in `await`, the alert it will build from its
\* locals pending.  Answers dispatched in the same turn of the event loop
\* settle before the microtask queue is drained, so another execution can
\* take this step while one is suspended there.
DnsSettled(i, ip, written) ==
    LET h == inflight[i]
        domain == Head(h.doms)
        alert == Classify(watchlist, profile, knownCabalDomains, domain, ip,
                          h.leaf)
    IN  /\ h.pending = NoAlert
        /\ IF alert = NoAlert \/ alert.matchType = "IP_MATCH"
           THEN EndIteration(i, ip, domain \in knownCabalDomains, alert,
                             written)
           ELSE /\ inflight' = [inflight EXCEPT ![i].pending = alert]
                /\ UNCHANGED <<knownCabalDomains, watchlist, profile,
                               messageCount, detectedCount, emitted,
                               alertsFile, delivered, lastClass, lastMsg,
                               timeVars, connVars, scraperVars, researchVars,
                               botVars>>

\* the continuation of `await this.performDeepDNAMatch(domain, certData)` in
\* execution i: the alert is built, counted, added to the seen-set, emitted
\* and saved (written as in EndIteration)
DeepMatchSettled(i, written) ==
    LET alert == inflight[i].pending
    IN  /\ alert # NoAlert
        /\ EndIteration(i, alert.ip, FALSE, alert, written)

\* frames the handler drops or only counts: anything but a certificate_update
ControlMessages == {m \in Messages : m.message_type # "certificate_update"}

(***************************************************************************)
(* CabalScraper.fingerprintSite(url).  A call is suspended at each of its  *)
(* awaits; between two awaits it runs without interruption.  Every         *)
(* statement reads and writes this.fingerprints, the object the most       *)
(* recent call created.                                                    *)
(***************************************************************************)
\* the index of the first layer from k on that suspends: the remote layer
\* returns { success: false } at once when no endpoint is configured
NextAwaited(k, endpoint) ==
    IF /\ k <= Len(Layers)
       /\ Layers[k] = "PLAYWRIGHT_REMOTE"
       /\ ~RemoteBrowserConnects(endpoint)
    THEN k + 1
    ELSE k

\* return this.fingerprints
Return(c, call, ref) ==
    fpCalls' = [fpCalls EXCEPT ![c] =
                  [call EXCEPT !.pc = "returned", !.ref = ref,
                               !.result = fpObj'[ref]]]

\* the for loop over the layers from layer k on, up to the next await or,
\* when no layer is left, the fallback and the return
RunLayers(c, call, k, obj) ==
    LET n == NextAwaited(k, remoteBrowserEndpoint)
        skipped == IF n > k THEN <<FALSE>> ELSE <<>>
        through == Min(n, Len(Layers))
        entered == [call EXCEPT
                      !.invoked = call.invoked \o SubSeq(Layers, k, through),
                      !.reported = call.reported \o skipped,
                      !.connected =
                          \/ call.connected
                          \/ /\ n <= Len(Layers)
                             /\ Layers[n] = "PLAYWRIGHT_REMOTE"]
    IN  IF n > Len(Layers)
        THEN /\ fpObj' = [fpObj EXCEPT
                            ![fingerprints] = Conclude(obj, FailedExtraction)]
             /\ Return(c, entered, fingerprints)
        ELSE /\ fpObj' = [fpObj EXCEPT ![fingerprints] = obj]
             /\ fpCalls' = [fpCalls EXCEPT ![c] =
                              [entered EXCEPT !.pc = "layer", !.layer = n]]

\* the call, up to await this.extractSSLFingerprint(hostname); new URL(url)
\* throws on a string that is no URL and the catch block returns
fingerprintSite(c, url) ==
    /\ fpCalls[c].pc = "idle"
    /\ fingerprints' = c
    /\ IF ValidURL(url)
       THEN /\ fpObj' = [fpObj EXCEPT ![c] = NewFingerprints(url)]
            /\ fpCalls' = [fpCalls EXCEPT ![c] =
                             [NoCall EXCEPT !.pc = "ssl", !.url = url]]
       ELSE /\ fpObj' = [fpObj EXCEPT
                           ![c] = WithError(NewFingerprints(url), "Invalid URL")]
            /\ Return(c, [NoCall EXCEPT !.url = url], c)
    /\ UNCHANGED <<remoteBrowserEndpoint, listenerVars, timeVars, connVars,
                   researchVars, botVars>>

\* extractSSLFingerprint resolved: up to await dns.resolve4(hostname)
SslSettled(c, sslInfo) ==
    /\ fpCalls[c].pc = "ssl"
    /\ sslInfo \in SslOutcomes(Hostname(fpCalls[c].url))
    /\ fpObj' = [fpObj EXCEPT
                   ![fingerprints] = WithSsl(fpObj[fingerprints], sslInfo)]
    /\ fpCalls' = [fpCalls EXCEPT ![c].pc = "dns"]
    /\ UNCHANGED <<remoteBrowserEndpoint, fingerprints, listenerVars,
                   timeVars, connVars, researchVars, botVars>>

\* dns.resolve4(hostname) settled: rejected, the catch block records the
\* error and the call returns; resolved, the first layer is invoked
ResolveSettled(c, resolved) ==
    LET call == fpCalls[c]
        hostname == Hostname(call.url)
    IN  /\ call.pc = "dns"
        /\ IF resolved
           THEN RunLayers(c, call, 1,
                          WithAddress(fpObj[fingerprints],
                                      AddressOf(hostname), hostname))
           ELSE /\ fpObj' = [fpObj EXCEPT ![fingerprints] =
                               WithError(fpObj[fingerprints], "ENOTFOUND")]
                /\ Return(c, call, fingerprints)
        /\ UNCHANGED <<remoteBrowserEndpoint, fingerprints, listenerVars,
                       timeVars, connVars, researchVars, botVars>>

\* the layer the call awaits returned: with success the loop breaks, the
\* result is merged and the call returns; else the loop goes on
LayerSettled(c, success) ==
    LET call == fpCalls[c]
        via == Layers[call.layer]
        reported == [call EXCEPT !.reported = Append(call.reported, success)]
    IN  /\ call.pc = "layer"
        /\ IF success
           THEN /\ fpObj' = [fpObj EXCEPT ![fingerprints] =
                               Conclude(fpObj[fingerprints],
                                        ExtractionResult(PageOf(call.url), via))]
                /\ Return(c, reported, fingerprints)
           ELSE RunLayers(c, reported, call.layer + 1, fpObj[fingerprints])
        /\ UNCHANGED <<remoteBrowserEndpoint, fingerprints, listenerVars,
                       timeVars, connVars, researchVars, botVars>>

NextScraper ==
    \/ \E c \in ScraperCallers, url \in URLs : fingerprintSite(c, url)
    \/ \E c \in ScraperCallers, sslInfo \in AllSslOutcomes :
          SslSettled(c, sslInfo)
    \/ \E c \in ScraperCallers, resolved \in BOOLEAN :
          ResolveSettled(c, resolved)
    \/ \E c \in ScraperCallers, success \in BOOLEAN : LayerSettled(c, success)

(***************************************************************************)
(* ResearchMode.profileSeedURLs(urls).  The run is suspended in            *)
(* profileURL at await this.scraper.fingerprintSite(url), once per new     *)
(* URL; Research Mode has a scraper of its own and awaits each call before *)
(* the next.                                                               *)
(***************************************************************************)
\* the lists profileSeedURLs is called with
SeedLists == UNION {[1..n -> URLs] : n \in 0..MaxSeedList}

\* the call, up to the first await: this.profile.seed_urls exists in every
\* profile loadProfile returns or saveProfile wrote; with no new URL the
\* function returns
profileSeedURLs(urls) ==
    /\ seedQueue = <<>>
    /\ seedCall' = [urls |-> Len(urls),
                    skippedURLs |-> Len(SkippedURLs(urls, researchedURLs)),
                    newURLs |-> Len(NewURLs(urls, researchedURLs)),
                    parity |-> ~seedCall.parity, failed |-> FALSE]
    /\ seedQueue' = NewURLs(urls, researchedURLs)
    /\ UNCHANGED <<rmWatchlist, rmProfile, researchedURLs, watchlistFile,
                   profileFile, researchedFile, listenerVars, timeVars,
                   connVars, scraperVars>>

\* fingerprintSite returned for the first URL of the queue, its host
\* resolved or not: the rest of profileURL (null on a fingerprint with an
\* error, else the merge into the profile), the loop body (watchlist,
\* seed_urls, infrastructure, saveResearchedURL, which rewrites the ledger
\* file), and either the next call of fingerprintSite or saveWatchlist(),
\* saveProfile() and the return
SeedFingerprinted(resolved) ==
    LET url == Head(seedQueue)
        fp == IF resolved \/ ~ValidURL(url) THEN SiteFingerprint(url)
              ELSE UnresolvedFingerprint(url)
        dna == DnaEntry(url, fp)
        failed == ProfileFailed(fp)
        wl == IF failed THEN rmWatchlist ELSE Watch(rmWatchlist, dna)
        prof == IF failed THEN rmProfile
                ELSE Infrastructure(MergeDna(rmProfile, dna), url, dna)
        ledger == IF failed THEN researchedURLs
                  ELSE AppendNew(researchedURLs, url)
    IN  /\ seedQueue # <<>>
        /\ seedQueue' = Tail(seedQueue)
        /\ rmWatchlist' = wl
        /\ rmProfile' = prof
        /\ researchedURLs' = ledger
        /\ researchedFile' = IF ledger # researchedURLs THEN ledger
                             ELSE researchedFile
        /\ IF Tail(seedQueue) = <<>>
           THEN /\ watchlistFile' = wl
                /\ profileFile' = prof
           ELSE UNCHANGED <<watchlistFile, profileFile>>
        /\ seedCall' = [seedCall EXCEPT !.failed = fp.error # ""]
        /\ UNCHANGED <<listenerVars, timeVars, connVars, scraperVars,
                       botVars>>

NextResearch ==
    \/ \E urls \in SeedLists : profileSeedURLs(urls) /\ UNCHANGED botVars
    \/ \E resolved \in BOOLEAN : SeedFingerprinted(resolved)

(***************************************************************************)
(* The bot (TargetedListenerBot.start): research, DNA lock, listening and  *)
(* the verification an alert triggers.  botPhase is the position of        *)
(* start(): "created", "researching" (awaiting profileSeedURLs), "locked"  *)
(* (runDNALockPhase returned true), "listening", or "exited".              *)
(***************************************************************************)
\* runResearchPhase() up to its await: the seed URLs of seed_urls.txt; with
\* none the phase fails and start() exits
runResearchPhase(urls) ==
    /\ botPhase = "created"
    /\ IF urls = <<>>
       THEN /\ botPhase' = "exited"
            /\ UNCHANGED <<researchVars, listenerVars, timeVars, connVars,
                           scraperVars>>
       ELSE /\ botPhase' = "researching"
            /\ profileSeedURLs(urls)
    /\ UNCHANGED <<listeners, verifications, detectionLog, bridgeVars>>

\* profileSeedURLs returned; runDNALockPhase(): the watchlist and profile
\* are read from their files and handed to the listener
\* (setWatchlist, setProfile) unless the watchlist has no IP
runDNALockPhase ==
    LET wl == loadWatchlist(watchlistFile)
        prof == loadProfile(profileFile)
    IN  /\ botPhase = "researching"
        /\ seedQueue = <<>>
        /\ IF wl.ips = <<>>
           THEN /\ botPhase' = "exited"
                /\ UNCHANGED <<watchlist, profile>>
           ELSE /\ botPhase' = "locked"
                /\ watchlist' = wl
                /\ profile' = prof
        /\ UNCHANGED <<knownCabalDomains, messageCount, detectedCount,
                       inflight, emitted, alertsFile, delivered, lastClass,
                       lastMsg, timeVars, connVars, scraperVars,
                       researchVars, listeners, verifications, detectionLog,
                       bridgeVars>>

\* runRealTimeListener(): listener.on('cabal_detected', ...) and
\* listener.connect()
runRealTimeListener ==
    /\ botPhase = "locked"
    /\ botPhase' = "listening"
    /\ listeners' = Append(listeners, "handleCabalDetection")
    /\ connect(DEFAULT_MAX_RETRIES)
    /\ UNCHANGED <<verifications, detectionLog, bridgeVars>>

\* handleCabalDetection, IP_MATCH: this.scraper.fingerprintSite(url)
\* returned; the handler goes on to await research.matchFingerprints
VerifyScraped(i, fp) ==
    /\ MicrotasksDrained
    /\ verifications[i].pc = "fingerprinting"
    /\ fp \in VerificationResults(DomainURL(verifications[i].alert.domain))
    /\ verifications' = [verifications EXCEPT ![i].pc = "matching",
                                              ![i].newFingerprints = fp]
    /\ UNCHANGED <<listenerVars, timeVars, connVars, scraperVars,
                   researchVars, botPhase, listeners, detectionLog,
                   bridgeVars>>

VerifyMatched_Learns(i, fp) ==
    LET v == verifications[i]
        url == DomainURL(v.alert.domain)
    IN  /\ MicrotasksDrained
        /\ v.pc = "matching"
        /\ fp \in VerificationResults(url)
        /\ detectionLog' =
             Append(detectionLog,
                    Detection(v.alert, "",
                              matchFingerprints(rmWatchlist, fp).type,
                              v.newFingerprints.dom_hash))
        /\ verifications' = [verifications EXCEPT ![i].pc = "done"]
        /\ rmWatchlist' = Watch(rmWatchlist, DnaEntry(url, fp))
        /\ UNCHANGED <<listenerVars, timeVars, connVars, scraperVars,
                       rmProfile, researchedURLs, watchlistFile, profileFile,
                       researchedFile, seedQueue, seedCall, botPhase,
                       listeners, bridgeVars>>

\* handleCabalDetection, IP_MATCH: the fingerprintSite call of
\* research.matchFingerprints returned; the match against
\* this.watchlist.fingerprints, and the detection appended to
\* cabal_detections.jsonl
VerifyMatched(i, fp) ==
    LET v == verifications[i]
    IN  /\ MicrotasksDrained
        /\ v.pc = "matching"
        /\ fp \in VerificationResults(DomainURL(v.alert.domain))
        /\ detectionLog' =
             Append(detectionLog,
                    Detection(v.alert, "",
                              matchFingerprints(rmWatchlist, fp).type,
                              v.newFingerprints.dom_hash))
        /\ verifications' = [verifications EXCEPT ![i].pc = "done"]
        /\ UNCHANGED <<listenerVars, timeVars, connVars, scraperVars,
                       researchVars, botPhase, listeners,
                       bridgeVars>>

\* the frames the stream delivers while the bot listens
LockMessages ==
    {Msg(TRUE, "heartbeat", FALSE, NoCert),
     Msg(TRUE, "certificate_update", TRUE, CertFunLE)}

\* seed_urls.txt as loadOrPromptSeedURLs reads it: no URL, one that
\* cannot be fingerprinted, the seed whitecat.fun, or two other seeds
BotSeedLists ==
    {<<>>, <<URL_INVALID>>, <<URL_WHITECAT>>, <<URL_GOLDENBULL, URL_SHOP>>}

NextLock ==
    \/ \E urls \in BotSeedLists : runResearchPhase(urls)
    \/ SeedFingerprinted(TRUE)
    \/ runDNALockPhase
    \/ runRealTimeListener
    \/ WsOpen
    \/ \E m \in LockMessages : WsMessage(m)
    \/ \E i \in DOMAIN inflight, ip \in DnsOutcomes : DnsSettled(i, ip, TRUE)
    \/ \E i \in DOMAIN inflight : DeepMatchSettled(i, TRUE)
    \/ \E i \in DOMAIN verifications, fp \in AllVerificationResults :
          VerifyScraped(i, fp)
    \/ \E i \in DOMAIN verifications, fp \in AllVerificationResults :
          VerifyMatched(i, fp)

(***************************************************************************)
(* The store-bridged variant: PythonCertStreamBridge polls the SQLite      *)
(* table the Python monitor fills and hands each row to the listener.      *)
(***************************************************************************)
\* the row of the certificates table for a certificate of the stream: the
\* names CertStream lists for it and the name of its issuer
CertRow(leaf) ==
    [domains |-> leaf.all_domains,
     issuer |-> IF leaf.hasIssuer THEN leaf.issuerO ELSE ""]

\* the leaf_cert of the message startPolling builds from a row:
\* { all_domains: domains, serial_number, issuer: { CN: cert.issuer } },
\* without subject and extensions and with an issuer that has no O
BridgeLeaf(row) == Cert(EMPTY_DOMAIN, <<>>, row.domains, TRUE, "")

BridgeMessage(row) == Msg(TRUE, "certificate_update", TRUE, BridgeLeaf(row))

\* the certificates whose rows the bridge finds; all_domains lists every
\* name of the certificate, as it does on the stream
CertFunSectigoAll ==
    Cert(WHITECAT_FUN, <<>>, <<WHITECAT_FUN>>, TRUE, ISSUER_SECTIGO)
CertShopAll ==
    Cert(SHOP_COM, <<SanStr(SHOP_COM)>>, <<SHOP_COM>>, TRUE, ISSUER_LE)
BridgedCerts == {CertFunLE, CertFunSectigoAll, CertShopAll}

\* runRealTimeListener() of the bridged bot: the bridge is created and
\* polls; the listener's WebSocket is never opened.  (The callback for
\* 'cabal_detected' was registered by start() before the research phase.)
runBridgeListener ==
    /\ botPhase = "locked"
    /\ botPhase' = "listening"
    /\ listeners' = Append(listeners, "handleCabalDetection")
    /\ UNCHANGED <<verifications, detectionLog, listenerVars, timeVars,
                   connVars, scraperVars, researchVars,
                   bridgeVars>>

\* poll(): the next unprocessed row becomes a message and
\* processCertificateFromBridge hands it to handleCertificateMessage; the
\* loop awaits it before it takes the next row
BridgeCertificate(row) ==
    /\ botPhase = "listening"
    /\ ~started
    /\ inflight = <<>>
    /\ delivered < MaxMessages
    /\ handleCertificateMessage(BridgeMessage(row))

NextBridge ==
    \/ \E urls \in BotSeedLists : runResearchPhase(urls)
    \/ SeedFingerprinted(TRUE)
    \/ runDNALockPhase
    \/ runBridgeListener
    \/ \E c \in BridgedCerts : BridgeCertificate(CertRow(c))
    \/ \E i \in DOMAIN inflight, ip \in DnsOutcomes : DnsSettled(i, ip, TRUE)
    \/ \E i \in DOMAIN inflight : DeepMatchSettled(i, TRUE)

\* the bot that listens while its connection fails: start() up to the
\* listener's connect(), then the events of the transport and the frames
\* it delivers while it is open
NextOwner ==
    \/ \E urls \in BotSeedLists : runResearchPhase(urls)
    \/ SeedFingerprinted(TRUE)
    \/ runDNALockPhase
    \/ runRealTimeListener
    \/ WsOpen
    \/ WsError
    \/ WsClose
    \/ ReconnectTimer
    \/ \E m \in LockMessages : WsMessage(m)
    \/ \E i \in DOMAIN inflight, ip \in DnsOutcomes : DnsSettled(i, ip, TRUE)
    \/ \E i \in DOMAIN inflight : DeepMatchSettled(i, TRUE)

\* the frames of the stream while the alert file may fail to be written
AlertFileMessages ==
    {Msg(TRUE, "certificate_update", TRUE, c) : c \in {CertFunLE, CertShopLE}}

\* message handling of a locked and connected listener whose
\* cabal_detections_realtime.json cannot always be written (disk full,
\* no permission)
NextAlertFile ==
    \/ \E w \in Watchlists : setWatchlist(w)
    \/ connect(DEFAULT_MAX_RETRIES) /\ UNCHANGED botVars
    \/ WsOpen
    \/ \E m \in AlertFileMessages : WsMessage(m)
    \/ \E i \in DOMAIN inflight, ip \in DnsOutcomes, written \in BOOLEAN :
          DnsSettled(i, ip, written)
    \/ \E i \in DOMAIN inflight, written \in BOOLEAN :
          DeepMatchSettled(i, written)

(***************************************************************************)
(* The polling of PythonCertStreamBridge.  poll() is an async closure of   *)
(* startPolling(): it is suspended in getUnprocessedCertificates(), then   *)
(* for every row in onCertificate(message) and in                          *)
(* markCertificateProcessed(), and between two runs it waits for the timer *)
(* it started.  The table is filled by the Python monitor, a separate      *)
(* process.                                                                *)
(***************************************************************************)
\* SELECT * FROM certificates WHERE cert_index > ? AND processed = 0
\* ORDER BY cert_index ASC: the cert_index of the rows, from k on
RECURSIVE UnprocessedFrom(_, _, _)
UnprocessedFrom(table, last, k) ==
    IF k > MaxCertIndex THEN <<>>
    ELSE IF table[k] = "unprocessed" /\ k > last
         THEN <<k>> \o UnprocessedFrom(table, last, k + 1)
    ELSE UnprocessedFrom(table, last, k + 1)

getUnprocessedCertificates(table, last) == UnprocessedFrom(table, last, 1)

\* if (this.isPolling) setTimeout(poll, this.pollInterval): the execution
\* waits for its timer, or it has ended
EndOfPoll(polling) == IF polling THEN "sleeping" ELSE "ended"

\* poll() of execution l goes on with the rows certs, isPolling being
\* polling: the message of the first row is handed to onCertificate, which
\* is awaited; with no row left the execution ends or starts its timer
ContinuePoll(l, certs, polling) ==
    IF certs # <<>>
    THEN /\ handed' = Append(handed, Head(certs))
         /\ polls' = [polls EXCEPT ![l] = [pc |-> "handling", certs |-> certs]]
    ELSE /\ handed' = handed
         /\ polls' = IF EndOfPoll(polling) = "ended" THEN RemoveAt(polls, l)
                     ELSE [polls EXCEPT ![l] = [pc |-> EndOfPoll(polling),
                                                certs |-> <<>>]]

\* the Python monitor inserts the row of the next certificate
InsertCertificate(k) ==
    /\ certificates[k] = "absent"
    /\ \A j \in 1..(k - 1) : certificates[j] # "absent"
    /\ certificates' = [certificates EXCEPT ![k] = "unprocessed"]
    /\ UNCHANGED <<isPolling, db, lastProcessedCertIndex, bridgeState, polls,
                   handed, botPhase, listeners, verifications, detectionLog,
                   listenerVars, timeVars, connVars, scraperVars,
                   researchVars>>

\* bridge.connect(): this.db = new sqlite3.Database(...)
bridgeConnect ==
    /\ ~db
    /\ db' = TRUE
    /\ UNCHANGED <<isPolling, lastProcessedCertIndex, bridgeState,
                   certificates, polls, handed, botPhase, listeners,
                   verifications, detectionLog, listenerVars, timeVars,
                   connVars, scraperVars, researchVars>>

\* startPolling(): returns at once while isPolling is set or no database
\* is open; else it sets isPolling and calls poll(), which runs up to
\* await this.getUnprocessedCertificates()
startPolling ==
    /\ ~isPolling
    /\ db
    /\ Len(polls) < MaxPolls
    /\ isPolling' = TRUE
    /\ polls' = Append(polls, [pc |-> "fetching", certs |-> <<>>])
    /\ UNCHANGED <<db, lastProcessedCertIndex, bridgeState, certificates,
                   handed, botPhase, listeners, verifications, detectionLog,
                   listenerVars, timeVars, connVars, scraperVars,
                   researchVars>>

\* stopPolling(): this.isPolling = false; this.saveProcessedState()
stopPolling ==
    /\ isPolling
    /\ isPolling' = FALSE
    /\ bridgeState' = lastProcessedCertIndex
    /\ UNCHANGED <<db, lastProcessedCertIndex, certificates, polls, handed,
                   botPhase, listeners, verifications, detectionLog,
                   listenerVars, timeVars, connVars, scraperVars,
                   researchVars>>

\* getUnprocessedCertificates() of execution l settled: rejected (the
\* query failed), the catch block of poll ends the run; resolved, the loop
\* over the rows starts
PollFetched(l, ok) ==
    /\ polls[l].pc = "fetching"
    /\ Len(handed) < MaxHanded
    /\ ContinuePoll(l,
                    IF ok THEN getUnprocessedCertificates(
                                   certificates, lastProcessedCertIndex)
                    ELSE <<>>,
                    isPolling)
    /\ UNCHANGED <<isPolling, db, lastProcessedCertIndex, bridgeState,
                   certificates, botPhase, listeners, verifications,
                   detectionLog, listenerVars, timeVars, connVars,
                   scraperVars, researchVars>>

\* onCertificate(message) of execution l resolved: up to
\* await this.markCertificateProcessed(cert.cert_index)
CertificateHandled(l) ==
    /\ polls[l].pc = "handling"
    /\ polls' = [polls EXCEPT ![l].pc = "marking"]
    /\ UNCHANGED <<isPolling, db, lastProcessedCertIndex, bridgeState,
                   certificates, handed, botPhase, listeners, verifications,
                   detectionLog, listenerVars, timeVars, connVars,
                   scraperVars, researchVars>>

\* markCertificateProcessed of execution l settled: resolved, the row is
\* processed, lastProcessedCertIndex is its cert_index and
\* saveProcessedState() writes it; rejected, the catch block inside the
\* loop logs the error; then the loop goes on with the next row
MarkSettled(l, ok) ==
    LET index == Head(polls[l].certs)
    IN  /\ polls[l].pc = "marking"
        /\ Len(handed) < MaxHanded
        /\ IF ok
           THEN /\ certificates' = [certificates EXCEPT ![index] = "processed"]
                /\ lastProcessedCertIndex' = index
                /\ bridgeState' = index
           ELSE UNCHANGED <<certificates, lastProcessedCertIndex, bridgeState>>
        /\ ContinuePoll(l, Tail(polls[l].certs), isPolling)
        /\ UNCHANGED <<isPolling, db, botPhase, listeners, verifications,
                       detectionLog, listenerVars, timeVars, connVars,
                       scraperVars, researchVars>>

\* the timer of execution l fires: poll() runs again, up to
\* await this.getUnprocessedCertificates()
PollTimer(l) ==
    /\ polls[l].pc = "sleeping"
    /\ polls' = [polls EXCEPT ![l].pc = "fetching"]
    /\ UNCHANGED <<isPolling, db, lastProcessedCertIndex, bridgeState,
                   certificates, handed, botPhase, listeners, verifications,
                   detectionLog, listenerVars, timeVars, connVars,
                   scraperVars, researchVars>>

\* a bridge whose polling is started and never stopped
NextPollLoop ==
    \/ \E k \in 1..MaxCertIndex : InsertCertificate(k)
    \/ bridgeConnect
    \/ startPolling
    \/ \E l \in DOMAIN polls, ok \in BOOLEAN : PollFetched(l, ok)
    \/ \E l \in DOMAIN polls : CertificateHandled(l)
    \/ \E l \in DOMAIN polls, ok \in BOOLEAN : MarkSettled(l, ok)
    \/ \E l \in DOMAIN polls : PollTimer(l)

\* a bridge whose polling is started and stopped at any time
NextPolling ==
    \/ NextPollLoop
    \/ stopPolling

(***************************************************************************)
(* The listener is two components that share no variable they write: the   *)
(* connection (connect, the transport events, disconnect, the timers)      *)
(* writes connVars and timeVars, message handling (WsMessage, DnsSettled)  *)
(* writes listenerVars and reads of the connection only that the transport *)
(* is open.  Spec is their composition.  SpecStream is the connection      *)
(* under control frames (heartbeats, frames that do not parse), SpecMatch  *)
(* the message handling of a listener that was locked and has connected;   *)
(* every behaviour of Spec restricted to the variables of one component is *)
(* a behaviour of that component's specification.                          *)
(***************************************************************************)
\* the listener whose owner calls connect() and disconnect() as it likes:
\* the transports these calls and the reconnect timer create, and their
\* open, error and close events; no time passes for the intervals
NextTransports ==
    \/ \E max \in RetryBudgets : connect(max) /\ UNCHANGED botVars
    \/ \E max \in RetryBudgets : connectAgain(max)
    \/ WsOpen
    \/ WsError
    \/ WsClose
    \/ ReconnectTimer
    \/ disconnect

NextStream ==
    \/ \E max \in RetryBudgets : connect(max) /\ UNCHANGED botVars
    \/ WsOpen
    \/ WsError
    \/ WsClose
    \/ ReconnectTimer
    \/ disconnect
    \/ Tick
    \/ PingTimer
    \/ StallCheck
    \/ WsPong
    \/ \E m \in ControlMessages : WsMessage(m)

NextMatch ==
    \/ \E w \in Watchlists : setWatchlist(w)
    \/ \E p \in Profiles : setProfile(p)
    \/ loadKnownDomains
    \/ connect(DEFAULT_MAX_RETRIES) /\ UNCHANGED botVars
    \/ WsOpen
    \/ \E m \in Messages : WsMessage(m)
    \/ \E i \in DOMAIN inflight, ip \in DnsOutcomes : DnsSettled(i, ip, TRUE)
    \/ \E i \in DOMAIN inflight : DeepMatchSettled(i, TRUE)

Next ==
    \/ NextStream
    \/ NextMatch
    \/ NextScraper
    \/ NextResearch
    \/ NextLock
    \/ NextOwner
    \/ NextTransports
    \/ NextBridge
    \/ NextAlertFile
    \/ NextPolling

\* BROWSER_ENDPOINT is read by extractUsingRemoteBrowser only: the
\* components that do not run the extraction layers start without it
InitNoEndpoint == Init /\ ~remoteBrowserEndpoint

Spec == Init /\ [][Next]_vars
SpecStream == InitNoEndpoint /\ [][NextStream]_vars
SpecMatch == InitNoEndpoint /\ [][NextMatch]_vars
SpecScraper == Init /\ [][NextScraper]_vars
SpecResearch == InitNoEndpoint /\ [][NextResearch]_vars
SpecLock == InitNoEndpoint /\ [][NextLock]_vars
SpecOwner == InitNoEndpoint /\ [][NextOwner]_vars
SpecTransports == InitNoEndpoint /\ [][NextTransports]_vars
SpecBridge == InitNoEndpoint /\ [][NextBridge]_vars

SpecPollLoop == InitNoEndpoint /\ [][NextPollLoop]_vars
SpecPolling == InitNoEndpoint /\ [][NextPolling]_vars


SpecAlertFile == InitNoEndpoint /\ [][NextAlertFile]_vars


\* every await of fingerprintSite settles: the SSL probe has a 5 s timer,
\* the resolver, axios (15 s), the browser connection and page.goto (20 s)
\* their timeouts
FairScraper ==
    \A c \in ScraperCallers :
        /\ WF_vars(\E sslInfo \in AllSslOutcomes : SslSettled(c, sslInfo))
        /\ WF_vars(\E resolved \in BOOLEAN : ResolveSettled(c, resolved))
        /\ WF_vars(\E success \in BOOLEAN : LayerSettled(c, success))

SpecScraperFair == SpecScraper /\ FairScraper

\* one call of connect() that is never followed by disconnect(): the
\* transport events, the reconnect timer and the heartbeat
NextLifecycle ==
    \/ \E max \in RetryBudgets : connect(max) /\ UNCHANGED botVars
    \/ WsOpen
    \/ WsError
    \/ WsClose
    \/ ReconnectTimer
    \/ Tick
    \/ PingTimer
    \/ StallCheck
    \/ WsPong

\* a connection attempt opens or fails (the handshake has a timeout), the
\* 'close' event follows an error, close() or terminate(), and the timer
\* the close handler started fires
FairLifecycle ==
    /\ WF_vars(wsState = "connecting" /\ (WsOpen \/ WsError))
    /\ WF_vars(wsState = "closing" /\ WsClose)
    /\ WF_vars(ReconnectTimer)

SpecLifecycle == InitNoEndpoint /\ [][NextLifecycle]_vars /\ FairLifecycle


(***************************************************************************)
(* Properties.                                                             *)
(***************************************************************************)
\* C1: within one session the listener emits at most one 'cabal_detected'
\* alert per domain, whatever the match type.
C1_AtMostOneAlertPerDomain ==
    \A i, j \in DOMAIN emitted :
        emitted[i].domain = emitted[j].domain => i = j

\* C2: the handling of a message completes before the handling of the next
\* one begins: never two executions of handleCertificateMessage in progress.
C2_OneMessageAtATime == Len(inflight) <= 1

\* a step that creates a transport (new WebSocket)
AttemptStep == wsState # "connecting" /\ wsState' = "connecting"

\* C3: after disconnect() no further connection attempt is made, the
\* reconnect timer is cancelled and the heartbeat timers are stopped.
C3_NoAttemptAfterDisconnect ==
    [][disconnectCalls > 0 =>
         /\ ~AttemptStep
         /\ reconnectTimer' = 0]_vars

\* C4: a connected listener that got no pong for 40 seconds has had its
\* transport force-closed: no open transport is without a pong for longer.
C4_TerminatedAfter40sWithoutPong ==
    wsState = "open" => sincePong <= STALL_CHECK_INTERVAL

RECURSIVE Pow2(_)
Pow2(n) == IF n = 0 THEN 1 ELSE 2 * Pow2(n - 1)

\* C5: with N reconnect attempts failed in a row since the last successful
\* open (or since connect()), the pending reconnect is delayed by
\* min(1000 * 2^N, 30000) ms; N is 0 right after a successful open.
C5_BackoffDelay ==
    reconnectTimer # 0 =>
        reconnectTimer =
            Min(INITIAL_RETRY_DELAY * Pow2(failedReconnects), MAX_RETRY_DELAY)

C5_CapReached ==
    /\ reconnectTimer = MAX_RETRY_DELAY
    /\ failedReconnects >= 5
    /\ retryDelay = MAX_RETRY_DELAY

\* the retry budget is used up: every attempt allowed since the last open
\* was made and the last transport has closed
Terminal ==
    /\ started
    /\ wsState = "closed"
    /\ attemptsSinceOpen = maxRetries

\* C6: at most maxRetries reconnect attempts are made since the last
\* successful open; when they all failed no timer is pending and no
\* transport is ever created again; an open resets the counter to zero.
C6_RetryBudget ==
    /\ [](attemptsSinceOpen <= maxRetries)
    /\ [](Terminal => reconnectTimer = 0)
    /\ [](wsState = "open" => retryCount = 0)
    /\ [][Terminal => ~AttemptStep /\ Terminal']_vars

C6_Exhausted ==
    /\ Terminal
    /\ maxRetries = DEFAULT_MAX_RETRIES
    /\ failedReconnects = DEFAULT_MAX_RETRIES
    /\ reconnectTimer = 0

\* the watchlist rule as the specification states it: the address is a
\* watched IP, or its first three octets are those of a watched /24 subnet
WatchedIP(ip) ==
    /\ ip # NoIP
    /\ watchlist.present
    /\ \/ \E i \in DOMAIN watchlist.ips : watchlist.ips[i] = ip
       \/ \E i \in DOMAIN watchlist.subnets :
             /\ SubSeq(watchlist.subnets[i], 1, 3) = SubSeq(ip, 1, 3)
             /\ SubSeq(watchlist.subnets[i], 4, 5) = <<0, 24>>

IssuerInProfile(leaf) ==
    /\ profile.present
    /\ leaf.hasIssuer
    /\ \E i \in DOMAIN profile.ssl_issuers : profile.ssl_issuers[i] = leaf.issuerO

\* the last alert emitted is the one the last classification produced
LastEmitted(alert) == emitted # <<>> /\ emitted[Len(emitted)] = alert

\* C7: a domain whose resolved IP is a watched IP or lies in a watched /24
\* subnet yields an IP_MATCH / CRITICAL alert, whatever its issuer and name.
C7_IPMatchWins ==
    (lastClass.done /\ WatchedIP(lastClass.ip)) =>
        /\ lastClass.alert.matchType = "IP_MATCH"
        /\ lastClass.alert.confidence = "CRITICAL"
        /\ lastClass.alert.domain = lastClass.domain
        /\ lastClass.alert.ip = lastClass.ip
        /\ LastEmitted(lastClass.alert)

C7_SubnetOnlyMatch ==
    /\ lastClass.done
    /\ lastClass.domain = WHITECAT_FUN
    /\ lastClass.ip = IP_SAME_SUBNET
    /\ IssuerInProfile(lastClass.leaf)
    /\ lastClass.alert.matchType = "IP_MATCH"
    /\ LastEmitted(lastClass.alert)

\* C8 as claimed: a not-yet-alerted domain with no IP match whose issuer is
\* in the profile's ssl_issuers yields SSL_ISSUER_MATCH / MEDIUM, whether or
\* not it matches a naming pattern.
C8_IssuerMatchAnyDomain ==
    (/\ lastClass.done
     /\ ~lastClass.known
     /\ ~WatchedIP(lastClass.ip)
     /\ IssuerInProfile(lastClass.leaf)) =>
        /\ lastClass.alert.matchType = "SSL_ISSUER_MATCH"
        /\ lastClass.alert.confidence = "MEDIUM"

\* C8 amended: a not-yet-alerted domain with no IP match that matches a
\* naming pattern and whose issuer is in the profile's ssl_issuers yields
\* SSL_ISSUER_MATCH / MEDIUM; one that matches no naming pattern yields no
\* alert.
C8_IssuerMatchOnPatternDomain ==
    (/\ lastClass.done
     /\ ~lastClass.known
     /\ ~WatchedIP(lastClass.ip)
     /\ IssuerInProfile(lastClass.leaf)) =>
        IF MatchesPattern(lastClass.domain)
        THEN /\ lastClass.alert.matchType = "SSL_ISSUER_MATCH"
             /\ lastClass.alert.confidence = "MEDIUM"
             /\ lastClass.alert.domain = lastClass.domain
             /\ LastEmitted(lastClass.alert)
        ELSE lastClass.alert = NoAlert

C8_IssuerAlert ==
    /\ lastClass.done
    /\ ~lastClass.known
    /\ lastClass.domain = WHITECAT_FUN
    /\ ~WatchedIP(lastClass.ip)
    /\ IssuerInProfile(lastClass.leaf)
    /\ lastClass.alert.matchType = "SSL_ISSUER_MATCH"
    /\ LastEmitted(lastClass.alert)

\* C9: a not-yet-alerted domain with no IP match and no issuer match that
\* matches a naming pattern yields PATTERN_MATCH / MEDIUM flagged
\* PENDING_MANUAL_REVIEW, with a profile loaded and with none.
C9_PatternMatchFlagged ==
    (/\ lastClass.done
     /\ ~lastClass.known
     /\ ~WatchedIP(lastClass.ip)
     /\ ~IssuerInProfile(lastClass.leaf)
     /\ MatchesPattern(lastClass.domain)) =>
        /\ lastClass.alert.matchType = "PATTERN_MATCH"
        /\ lastClass.alert.confidence = "MEDIUM"
        /\ lastClass.alert.status = "PENDING_MANUAL_REVIEW"

\* the delivery of a frame whose message_type is 'heartbeat'
HeartbeatStep ==
    /\ delivered' = delivered + 1
    /\ lastMsg'.json
    /\ lastMsg'.message_type = "heartbeat"

DroppedStep ==
    /\ delivered' = delivered + 1
    /\ \/ ~lastMsg'.json
       \/ lastMsg'.message_type = "certificate_update" /\ ~lastMsg'.hasLeaf

\* the delivery of a certificate_update with a leaf certificate that names
\* at least one domain to resolve
ValidStep ==
    /\ delivered' = delivered + 1
    /\ lastMsg'.json
    /\ lastMsg'.message_type = "certificate_update"
    /\ lastMsg'.hasLeaf
    /\ \E i \in DOMAIN extractDomainsFromCert(lastMsg'.leaf_cert) :
          LET d == extractDomainsFromCert(lastMsg'.leaf_cert)[i]
          IN  d # <<>> /\ d[1] # "*"

\* C11: a frame that is not valid JSON, or a certificate_update without
\* data.leaf_cert, is dropped: no alert, no resolution, the connection and
\* the seen-set as before; a valid certificate_update is processed whatever
\* frames were dropped before it.
C11_MalformedDropped ==
    [][/\ DroppedStep =>
            /\ emitted' = emitted
            /\ alertsFile' = alertsFile
            /\ knownCabalDomains' = knownCabalDomains
            /\ detectedCount' = detectedCount
            /\ inflight' = inflight
            /\ lastClass' = lastClass
            /\ connVars' = connVars
            /\ timeVars' = timeVars
       /\ ValidStep =>
            /\ Len(inflight') = Len(inflight) + 1
            /\ inflight'[Len(inflight')].leaf = lastMsg'.leaf_cert]_vars

\* an invalid frame came first, the valid certificate_update after it was
\* processed up to its alert
C11_ProcessedAfterDrop ==
    /\ delivered = 2
    /\ messageCount = 1
    /\ lastMsg.json
    /\ lastMsg.message_type = "certificate_update"
    /\ lastMsg.hasLeaf
    /\ wsState = "open"
    /\ isConnected
    /\ lastClass.done
    /\ lastClass.leaf = lastMsg.leaf_cert
    /\ LastEmitted(lastClass.alert)

\* a wildcard name or the empty string, as the specification describes them
WildcardOrEmpty(d) == d = <<>> \/ d[1] = "*"

\* C12: a domain that begins with '*.' or is empty is never resolved, never
\* classified, never added to the seen-set and never the domain of an alert.
C12_FilteredNeverClassified ==
    /\ \A i \in DOMAIN inflight : ~WildcardOrEmpty(Head(inflight[i].doms))
    /\ lastClass.done => ~WildcardOrEmpty(lastClass.domain)
    /\ \A d \in knownCabalDomains : ~WildcardOrEmpty(d)
    /\ \A i \in DOMAIN emitted : ~WildcardOrEmpty(emitted[i].domain)
    /\ \A i \in DOMAIN alertsFile : ~WildcardOrEmpty(alertsFile[i].domain)

\* a certificate that names a wildcard was processed to its end
C12_WildcardSkipped ==
    /\ lastClass.done
    /\ lastClass.leaf = CertFunLE
    /\ Includes(extractDomainsFromCert(lastClass.leaf), WILDCARD_FUN)
    /\ lastMsg.leaf_cert = CertFunLE
    /\ delivered = 1
    /\ inflight = <<>>
    /\ emitted # <<>>

\* a step in which dns.resolve4 settles and the domain is classified
ClassifyStep ==
    /\ delivered' = delivered
    /\ \/ Len(inflight') < Len(inflight)
       \/ \E i \in DOMAIN inflight : inflight'[i].doms # inflight[i].doms

\* C13: a domain whose resolution failed is classified with resolvedIP null:
\* it yields no IP_MATCH, the issuer and pattern rules apply to it, and the
\* domains of the certificate after it are still resolved and classified.
C13_ResolutionFailureNonFatal ==
    /\ [](lastClass.done /\ lastClass.ip = NoIP =>
            /\ lastClass.alert.matchType # "IP_MATCH"
            /\ (MatchesPattern(lastClass.domain) /\ ~lastClass.known) =>
                 /\ lastClass.alert.domain = lastClass.domain
                 /\ lastClass.alert.ip = NoIP
                 /\ lastClass.alert.matchType =
                       IF IssuerInProfile(lastClass.leaf)
                       THEN "SSL_ISSUER_MATCH" ELSE "PATTERN_MATCH")
    /\ [][ClassifyStep /\ lastClass'.ip = NoIP =>
            \E i \in DOMAIN inflight :
                LET rest == Tail(inflight[i].doms)
                    left == {j \in DOMAIN rest : ~WildcardOrEmpty(rest[j])}
                IN  /\ Head(inflight[i].doms) = lastClass'.domain
                    /\ left # {} =>
                         /\ Len(inflight') = Len(inflight)
                         /\ \E j \in left :
                               /\ Head(inflight'[i].doms) = rest[j]
                               /\ \A k \in left : j <= k]_vars

\* shop.com did not resolve and thewhitecat.com, the next domain of the
\* certificate, did not either: it is alerted by the issuer rule
C13_IssuerAlertWithoutIP ==
    /\ lastClass.done
    /\ lastClass.ip = NoIP
    /\ lastClass.leaf = CertShopLE
    /\ lastClass.domain = THEWHITECAT_COM
    /\ lastClass.alert.matchType = "SSL_ISSUER_MATCH"
    /\ lastClass.alert.ip = NoIP
    /\ LastEmitted(lastClass.alert)

\* C14: a domain that matches none of the IP/subnet, issuer and pattern
\* rules yields no alert and leaves the seen-set, the detected counter, the
\* watchlist and the profile as they were.
C14_NoMatchNoChange ==
    [][(/\ ClassifyStep
        /\ ~WatchedIP(lastClass'.ip)
        /\ ~IssuerInProfile(lastClass'.leaf)
        /\ ~MatchesPattern(lastClass'.domain)) =>
          /\ lastClass'.alert = NoAlert
          /\ emitted' = emitted
          /\ alertsFile' = alertsFile
          /\ knownCabalDomains' = knownCabalDomains
          /\ detectedCount' = detectedCount
          /\ watchlist' = watchlist
          /\ profile' = profile]_vars

\* shop.com resolved to an address that is not watched, its issuer is not
\* in the profile: nothing was emitted
C14_UnmatchedDomain ==
    /\ lastClass.done
    /\ lastClass.domain = SHOP_COM
    /\ lastClass.ip = IP_OTHER
    /\ watchlist.present
    /\ profile.present
    /\ ~IssuerInProfile(lastClass.leaf)
    /\ lastClass.alert = NoAlert
    /\ emitted = <<>>
    /\ knownCabalDomains = {}
    /\ detectedCount = 0

\* s is an initial segment of t
IsPrefix(s, t) == Len(s) <= Len(t) /\ s = SubSeq(t, 1, Len(s))

\* the layers of the call that reported success
Successes(call) == {i \in DOMAIN call.reported : call.reported[i]}

\* C15: fingerprintSite invokes static parse, remote browser, local browser
\* in that order, each only after the one before reported failure, and
\* stops at the first success: after a success of layer 1 no other layer is
\* invoked; when layers 1 and 2 fail and layer 3 succeeds the returned
\* extracted_via is that of layer 3; without a remote endpoint layer 2
\* fails without connecting.
C15_LayerPrecedence ==
    \A c \in ScraperCallers :
        LET call == fpCalls[c]
        IN  /\ IsPrefix(call.invoked, <<"AXIOS_CHEERIO", "PLAYWRIGHT_REMOTE",
                                        "PLAYWRIGHT_LOCAL">>)
            /\ Len(call.reported) <= Len(call.invoked)
            /\ Len(call.invoked) <= Len(call.reported) + 1
            /\ \A i \in Successes(call) :
                  /\ i = Len(call.invoked)
                  /\ call.pc = "returned"
                  /\ call.result.extracted_via = call.invoked[i]
            /\ (call.pc = "returned" /\ call.reported = <<FALSE, FALSE, TRUE>>)
                  => call.result.extracted_via = "PLAYWRIGHT_LOCAL"
            /\ ~remoteBrowserEndpoint =>
                  /\ ~call.connected
                  /\ Len(call.reported) >= 2 => ~call.reported[2]

\* no endpoint is configured: layer 1 failed, layer 2 failed without
\* connecting, layer 3 succeeded and names the result
C15_ThirdLayerNamesResult ==
    \E c \in ScraperCallers :
        /\ ~remoteBrowserEndpoint
        /\ fpCalls[c].pc = "returned"
        /\ fpCalls[c].invoked =
              <<"AXIOS_CHEERIO", "PLAYWRIGHT_REMOTE", "PLAYWRIGHT_LOCAL">>
        /\ fpCalls[c].reported = <<FALSE, FALSE, TRUE>>
        /\ ~fpCalls[c].connected
        /\ fpCalls[c].result.extracted_via = "PLAYWRIGHT_LOCAL"

\* the fingerprint the specification calls degraded
IsDegraded(fp) ==
    /\ fp.structural
    /\ fp.dom_hash = NullHash
    /\ fp.css_vars = <<>>
    /\ fp.script_hashes = <<>>
    /\ fp.elementor_data_ids = <<>>
    /\ fp.common_class_names = <<>>
    /\ ~fp.uses_wp_uploads
    /\ ~fp.uses_tinybird
    /\ fp.extracted_via = "DNS_SSL_ONLY"

\* C16: whatever fails (URL parse, SSL probe, DNS resolution, any layer),
\* a call of fingerprintSite returns an object; when all three layers failed
\* the object it returns is the degraded fingerprint.
C16_AlwaysReturnsDegradedOnTotalFailure ==
    \A c \in ScraperCallers :
        /\ [](fpCalls[c].pc = "returned" =>
                /\ fpCalls[c].ref \in ScraperCallers
                /\ fpCalls[c].result.url \in URLs
                /\ fpCalls[c].reported = <<FALSE, FALSE, FALSE>>
                      => IsDegraded(fpCalls[c].result))
        /\ (fpCalls[c].pc # "idle") ~> (fpCalls[c].pc = "returned")

\* a call whose layers all failed returned after another call had merged a
\* successful extraction into the object
C16_DegradedAfterOverlap ==
    \E c, d \in ScraperCallers :
        /\ c # d
        /\ fpCalls[c].pc = "returned"
        /\ fpCalls[c].reported = <<FALSE, FALSE, FALSE>>
        /\ IsDegraded(fpCalls[c].result)
        /\ fpCalls[d].pc = "returned"
        /\ Successes(fpCalls[d]) # {}
        /\ fpCalls[d].ref = fpCalls[c].ref
        /\ fpCalls[d].result.extracted_via # "DNS_SSL_ONLY"

\* the call returned the result of a layer that succeeded
Extracted(call) == call.pc = "returned" /\ Successes(call) # {}

\* C17: the dom_hash of a document depends only on its markup: two
\* documents that differ only in their text get the same dom_hash, two
\* documents with different markup get different ones.
C17_HashOfStructureOnly ==
    \A c, d \in ScraperCallers :
        (Extracted(fpCalls[c]) /\ Extracted(fpCalls[d])) =>
            (PageOf(fpCalls[c].url).markup = PageOf(fpCalls[d].url).markup
                <=> fpCalls[c].result.dom_hash = fpCalls[d].result.dom_hash)

\* the elements of a list
Range(s) == {s[i] : i \in DOMAIN s}

\* a call of profileSeedURLs with a list all of whose URLs are in the
\* processed-URL ledger
RerunStep ==
    /\ seedCall' # seedCall
    /\ seedCall'.skippedURLs = seedCall'.urls

\* C18: profileSeedURLs with a list in which every URL is already in the
\* ledger changes nothing: profile and watchlist in memory and on disk and
\* the ledger are as before, and no URL is fingerprinted.
C18_RerunChangesNothing ==
    [][RerunStep =>
         /\ rmProfile' = rmProfile
         /\ profileFile' = profileFile
         /\ rmWatchlist' = rmWatchlist
         /\ watchlistFile' = watchlistFile
         /\ researchedURLs' = researchedURLs
         /\ researchedFile' = researchedFile
         /\ seedQueue' = <<>>]_vars

\* both sites were researched and the last call, with two URLs, found
\* both in the ledger
C18_RerunOfResearchedSeeds ==
    /\ seedCall.urls = 2
    /\ seedCall.skippedURLs = 2
    /\ seedQueue = <<>>
    /\ Range(researchedURLs) = {URL_WHITECAT, URL_GOLDENBULL}
    /\ Len(rmWatchlist.fingerprints) = 2
    /\ watchlistFile = rmWatchlist
    /\ profileFile = rmProfile

\* the seed URLs profiled so far, and what their (fixed) fingerprints hold
Profiled == Range(researchedURLs)
ProfiledIPs == {SiteFingerprint(u).ip : u \in Profiled} \ {NoIP}

\* C19: the profile's lists and the watched IPs and subnets, as sets, are
\* determined by the set of seed URLs profiled, whatever the order in which
\* they were processed, and no element is ever removed from them.
C19_OrderIndependentMonotone ==
    /\ [](/\ Range(rmProfile.ssl_issuers) =
               {SiteFingerprint(u).ssl.organization :
                  u \in {v \in Profiled : SiteFingerprint(v).ssl.state = "info"}}
          /\ Range(rmProfile.css_variables) =
               UNION {Range(SiteFingerprint(u).css_vars) : u \in Profiled}
          /\ Range(rmProfile.script_hashes) =
               UNION {Range(SiteFingerprint(u).script_hashes) : u \in Profiled}
          /\ Range(rmProfile.dom_hashes) =
               {SiteFingerprint(u).dom_hash : u \in Profiled} \ {NullHash}
          /\ Range(rmProfile.elementor_data_ids) =
               UNION {Range(SiteFingerprint(u).elementor_data_ids) :
                        u \in Profiled}
          /\ Range(rmProfile.common_class_names) =
               UNION {Range(SiteFingerprint(u).common_class_names) :
                        u \in Profiled}
          /\ Range(rmWatchlist.ips) = ProfiledIPs
          /\ Range(rmWatchlist.subnets) =
               {<<ip[1], ip[2], ip[3], 0, 24>> : ip \in ProfiledIPs})
    /\ [][/\ Range(rmProfile.ssl_issuers) \subseteq Range(rmProfile.ssl_issuers')
          /\ Range(rmProfile.css_variables)
                \subseteq Range(rmProfile.css_variables')
          /\ Range(rmProfile.script_hashes)
                \subseteq Range(rmProfile.script_hashes')
          /\ Range(rmProfile.dom_hashes) \subseteq Range(rmProfile.dom_hashes')
          /\ Range(rmProfile.elementor_data_ids)
                \subseteq Range(rmProfile.elementor_data_ids')
          /\ Range(rmProfile.common_class_names)
                \subseteq Range(rmProfile.common_class_names')
          /\ Range(rmWatchlist.ips) \subseteq Range(rmWatchlist.ips')
          /\ Range(rmWatchlist.subnets) \subseteq Range(rmWatchlist.subnets')
         ]_vars

\* the three sites were profiled in the order shop.com, goldenbull.xyz,
\* whitecat.fun: the lists reflect that order, the sets do not
C19_ReverseOrder ==
    /\ researchedURLs = <<URL_SHOP, URL_GOLDENBULL, URL_WHITECAT>>
    /\ seedQueue = <<>>
    /\ rmProfile.ssl_issuers = <<ISSUER_SECTIGO, ISSUER_LE>>
    /\ rmWatchlist.ips = <<IP_OTHER, IP_SAME_SUBNET, IP_WATCHED>>
    /\ Len(rmWatchlist.subnets) = 2
    /\ Len(rmProfile.dom_hashes) = 2
    /\ profileFile = rmProfile

\* the DNA lock has happened: runDNALockPhase handed the watchlist and the
\* profile to the listener
Locked == botPhase \in {"locked", "listening"}

\* C20: once the listener has been given the watchlist and the profile, no
\* step (stream message, classification, alert, triggered verification)
\* changes the listener's watchlist or profile, nor those of Research Mode
\* in memory or in their files.
C20_FrozenAfterLock ==
    [][Locked =>
         /\ watchlist' = watchlist
         /\ profile' = profile
         /\ rmWatchlist' = rmWatchlist
         /\ rmProfile' = rmProfile
         /\ watchlistFile' = watchlistFile
         /\ profileFile' = profileFile]_vars

\* while listening, an IP_MATCH alert for whitecat.fun was verified and its
\* page matched the fingerprint of the seed by DOM hash; the watchlist is
\* the one research saved
C20_VerifiedAfterLock ==
    /\ botPhase = "listening"
    /\ watchlist = watchlistFile
    /\ watchlist = rmWatchlist
    /\ Len(watchlist.fingerprints) = 1
    /\ profile = rmProfile
    /\ \E i \in DOMAIN detectionLog :
          /\ detectionLog[i].matchType = "IP_MATCH"
          /\ detectionLog[i].domain = WHITECAT_FUN
          /\ detectionLog[i].fingerprintMatch = "dom_match"
    /\ \E i \in DOMAIN verifications : verifications[i].pc = "done"

\* the set the certificate names: subject.CN when it has one, the string
\* entries of extensions.subjectAltName, the entries of all_domains
CertDomainSet(leaf) ==
    (IF leaf.subjectCN # EMPTY_DOMAIN THEN {leaf.subjectCN} ELSE {})
    \cup {leaf.subjectAltName[k].value :
            k \in {n \in DOMAIN leaf.subjectAltName :
                     leaf.subjectAltName[n].isString}}
    \cup Range(leaf.all_domains)

NoDuplicates(s) == \A i, j \in DOMAIN s : s[i] = s[j] => i = j

\* a step in which a certificate_update frame with a leaf certificate is
\* handled
CertificateStep ==
    delivered' = delivered + 1 /\ IsCertificateUpdate(lastMsg')

\* C21: the domains extracted from a certificate are exactly the union of
\* subject.CN, the string entries of subjectAltName and all_domains, each
\* once; and it is this list whose unfiltered part the handler goes on to
\* resolve.
C21_ExtractedDomainsAreTheUnion ==
    [][CertificateStep =>
         LET leaf == lastMsg'.leaf_cert
             domains == extractDomainsFromCert(leaf)
         IN  /\ NoDuplicates(domains)
             /\ Range(domains) = CertDomainSet(leaf)
             /\ IF SkipFiltered(domains) = <<>>
                THEN inflight' = inflight
                ELSE /\ Len(inflight') = Len(inflight) + 1
                     /\ inflight'[Len(inflight')].doms = SkipFiltered(domains)
                     /\ NoDuplicates(inflight'[Len(inflight')].doms)]_vars

\* a certificate whose CN is repeated in subjectAltName and in all_domains
\* was handled and its domains are being resolved, each once
C21_RepeatedNamesExtractedOnce ==
    /\ IsCertificateUpdate(lastMsg)
    /\ lastMsg.leaf_cert = CertFunLE
    /\ inflight # <<>>
    /\ inflight[Len(inflight)].doms = <<WHITECAT_FUN, WILDCARD_FUN>>

\* x.y.z.0/24 of the address x.y.z.w
Slash24(ip) == <<ip[1], ip[2], ip[3], 0, 24>>

SameFirstThreeOctets(a, b) ==
    Len(a) = 4 /\ Len(b) = 4 /\ a[1] = b[1] /\ a[2] = b[2] /\ a[3] = b[3]

\* addresses of four parts, and one that does not have four
TestAddresses == (DnsOutcomes \ {NoIP}) \cup {<<10, 0, 0>>}

InResearchedSubnet(ip) ==
    \E k \in DOMAIN rmWatchlist.ips :
        SameFirstThreeOctets(rmWatchlist.ips[k], ip)

\* C22: the subnet derived from x.y.z.w is x.y.z.0/24 (null unless the
\* address has four parts); Research Mode watches that subnet for every IP
\* it researched, and the locked listener, deriving the same string, reports
\* every address sharing the first three octets with a researched IP as
\* watched and classifies it IP_MATCH.
C22_SameSubnetIsWatched ==
    /\ \A a \in TestAddresses :
          extractSubnet(a) = IF Len(a) = 4 THEN Slash24(a) ELSE NoSubnet
    /\ \A k \in DOMAIN rmWatchlist.fingerprints :
          LET e == rmWatchlist.fingerprints[k]
          IN  e.ip # NoIP =>
                /\ e.subnet = Slash24(e.ip)
                /\ Includes(rmWatchlist.ips, e.ip)
                /\ Includes(rmWatchlist.subnets, e.subnet)
    /\ \A a \in TestAddresses :
          InResearchedSubnet(a) =>
             /\ rmIsIPWatched(rmWatchlist, a)
             /\ Locked => isIPWatched(watchlist, a)
    /\ (Locked /\ lastClass.done /\ InResearchedSubnet(lastClass.ip)) =>
          lastClass.alert.matchType = "IP_MATCH"

\* the locked listener classified a domain at an address that was not
\* researched itself but lies in the /24 of a researched one
C22_NeighbourAddressAlerted ==
    /\ Locked
    /\ lastClass.done
    /\ lastClass.ip = IP_SAME_SUBNET
    /\ ~Includes(watchlist.ips, IP_SAME_SUBNET)
    /\ Includes(rmWatchlist.ips, IP_WATCHED)
    /\ lastClass.alert.matchType = "IP_MATCH"

\* the step in which the 'close' handler finds the retry budget used up
ExhaustionStep == ~Terminal /\ Terminal'

\* C23: when the retry budget is exhausted the terminal condition is
\* reported once to the owner of the listener (a callback of the bot runs or
\* a field of the bot changes), while the watchlist, the profile, the
\* seen-set and the alerts raised stay as they were and the bot keeps
\* running.
C23_ExhaustionReportedToOwner ==
    [][ExhaustionStep =>
         /\ botVars' # botVars
         /\ botPhase' # "exited"
         /\ UNCHANGED <<watchlist, profile, knownCabalDomains, emitted,
                        alertsFile>>]_vars

\* the verification of the alert handed to execution i of
\* handleCabalDetection has not finished
VerificationPending(i) ==
    /\ verifications[i].alert.matchType = "IP_MATCH"
    /\ verifications[i].pc # "done"

\* a step in which emit('cabal_detected', alert) is called
EmitStep == Len(emitted') = Len(emitted) + 1

\* the detection of an IP_MATCH alert in cabal_detections.jsonl
Logged(alert) ==
    \E k \in DOMAIN detectionLog :
        /\ detectionLog[k].domain = alert.domain
        /\ detectionLog[k].matchType = "IP_MATCH"
        /\ detectionLog[k].ip = alert.ip

\* C24: emit() returns while the verification of an IP_MATCH alert is
\* pending (nothing is logged in the step that emits); a pending
\* verification does not keep the listener from classifying the domain it
\* resolves next; the detection is logged once the verification is done,
\* not before.
C24_AlertDoesNotWaitForVerification ==
    /\ [][(EmitStep /\ listeners # <<>>
             /\ emitted'[Len(emitted')].matchType = "IP_MATCH") =>
            /\ Len(verifications') = Len(verifications) + 1
            /\ verifications'[Len(verifications')].alert =
                  emitted'[Len(emitted')]
            /\ verifications'[Len(verifications')].pc = "fingerprinting"
            /\ detectionLog' = detectionLog]_vars
    /\ []((/\ \E i \in DOMAIN verifications : VerificationPending(i)
           /\ inflight # <<>>
           /\ MicrotasksDrained) =>
             ENABLED DnsSettled(1, IP_OTHER, TRUE))
    /\ [](Len(detectionLog) <=
             Cardinality({i \in DOMAIN verifications :
                            verifications[i].pc = "done"}))
    /\ [](\A i \in DOMAIN verifications :
             (verifications[i].alert.matchType = "IP_MATCH"
                /\ verifications[i].pc = "done") =>
                  Logged(verifications[i].alert))

\* while the verification of the first alert was pending a later message
\* was classified and alerted, and the first detection was logged after it
C24_ClassifiedWhilePending ==
    /\ Len(verifications) = 2
    /\ Len(emitted) = 2
    /\ verifications[1].alert.matchType = "IP_MATCH"
    /\ verifications[1].pc = "done"
    /\ verifications[2].pc = "fingerprinting"
    /\ Len(detectionLog) = 1
    /\ delivered = 2

\* the WebSockets of the listener that are connecting or open
Transports ==
    (IF wsState \in {"connecting", "open"} THEN 1 ELSE 0)
    + (IF supersededWs \in {"connecting", "open"} THEN 1 ELSE 0)

\* C25: at every moment at most one transport (a WebSocket that is
\* connecting or open) exists for the listener, over any sequence of
\* connect(), disconnect(), open, close, error and timer events; an attempt
\* is started only when the previous transport has closed.
C25_AtMostOneTransport ==
    /\ [](Transports <= 1)
    /\ [][AttemptStep => wsState \in {"none", "closed"}]_vars

\* a step in which disconnect() is called
DisconnectStep == disconnectCalls' = disconnectCalls + 1

\* a call of disconnect() would change nothing
DisconnectChangesNothing ==
    /\ wsState # "none" => CloseTransport(wsState) = wsState
    /\ wsState # "none" => ~isConnected

\* C26: disconnect() is idempotent.  A call leaves the listener in a state
\* a further call does not change, a call made in such a state changes
\* nothing but the count of the calls, and no state refuses the call:
\* also with this.ws null (never connected) or closed.
C26_DisconnectIdempotent ==
    /\ [][DisconnectStep => DisconnectChangesNothing']_vars
    /\ [][(DisconnectStep /\ DisconnectChangesNothing) =>
            UNCHANGED <<listenerVars, timeVars, isConnected, wsState,
                        started, supersededWs, maxRetries, retryCount,
                        retryDelay, isAlive, pingInterval,
                        stallCheckInterval, reconnectTimer, wsIsRetry,
                        wsOpened, attemptsSinceOpen, failedReconnects,
                        scraperVars, researchVars, botVars>>]_vars
    /\ [](disconnectCalls < MaxDisconnectCalls => ENABLED disconnect)

\* disconnect() was called twice on an open transport before its 'close'
\* event was delivered
C26_CalledTwiceWhileClosing ==
    /\ disconnectCalls = 2
    /\ wsOpened
    /\ wsState = "closing"
    /\ ~isConnected

\* the executions of handleCabalDetection that have finished
Handled == {i \in DOMAIN verifications : verifications[i].pc = "done"}

\* a record of cabal_detections.jsonl for the alert
DetectionOf(alert) ==
    {k \in DOMAIN detectionLog :
        /\ detectionLog[k].domain = alert.domain
        /\ detectionLog[k].ip = alert.ip
        /\ detectionLog[k].matchType = alert.matchType
        /\ detectionLog[k].confidence = alert.confidence}

\* C27: every alert the listener emits is handed to the bot's handler, and
\* the handler, once it has finished, has written one detection record for
\* it, whatever the matchType: as many records as handled alerts, and a
\* record for each.
C27_EveryAlertLoggedOnce ==
    /\ Len(verifications) = Len(emitted)
    /\ \A i \in DOMAIN verifications : verifications[i].alert = emitted[i]
    /\ Len(detectionLog) = Cardinality(Handled)
    /\ \A i \in Handled : DetectionOf(verifications[i].alert) # {}

\* the alert the listener raises for the domain and address of the last
\* classification when the certificate arrives on the direct stream
DirectAlert(leaf) ==
    Classify(watchlist, profile,
             IF lastClass.known THEN {lastClass.domain} ELSE {},
             lastClass.domain, lastClass.ip, leaf)

\* C28: a certificate delivered through the SQLite bridge is classified as
\* the same certificate on the direct stream: the same domains are
\* extracted and, for the same domain and address, an alert of the same
\* match type and confidence is produced.
C28_BridgeClassifiesLikeStream ==
    \A c \in BridgedCerts :
        /\ extractDomainsFromCert(BridgeLeaf(CertRow(c))) =
              extractDomainsFromCert(c)
        /\ (lastClass.done /\ lastClass.leaf = BridgeLeaf(CertRow(c))) =>
              /\ lastClass.alert.matchType = DirectAlert(c).matchType
              /\ lastClass.alert.confidence = DirectAlert(c).confidence

\* C29: an emitted alert has confidence CRITICAL exactly when its matchType
\* is IP_MATCH and MEDIUM when it is SSL_ISSUER_MATCH or PATTERN_MATCH; an
\* IP_MATCH alert carries a resolved IP that is watched, an alert of
\* another type carries no watched IP.
C29_ConfidenceFollowsMatchType ==
    \A i \in DOMAIN emitted :
        LET alert == emitted[i]
        IN  /\ alert.matchType \in
                  {"IP_MATCH", "SSL_ISSUER_MATCH", "PATTERN_MATCH"}
            /\ alert.confidence = "CRITICAL" <=> alert.matchType = "IP_MATCH"
            /\ alert.matchType # "IP_MATCH" => alert.confidence = "MEDIUM"
            /\ alert.matchType = "IP_MATCH" =>
                  alert.ip # NoIP /\ WatchedIP(alert.ip)
            /\ alert.matchType # "IP_MATCH" => ~WatchedIP(alert.ip)

\* an IP_MATCH alert for an address of a watched subnet and an
\* SSL_ISSUER_MATCH alert with an unwatched address were both emitted
C29_BothKindsEmitted ==
    \E i, j \in DOMAIN emitted :
        /\ emitted[i].matchType = "IP_MATCH"
        /\ emitted[i].ip = IP_SAME_SUBNET
        /\ emitted[j].matchType = "SSL_ISSUER_MATCH"
        /\ emitted[j].ip = IP_OTHER

\* C30: when two messages naming the same pattern-matching domain, with no
\* watched IP, are in flight together, one alert is emitted for the domain:
\* the test of the seen-set and the insertion into it are not separated by
\* a point where the other message runs, so no two alerts that are not
\* IP_MATCH name the same domain.
C30_OneAlertForRacedDomain ==
    \A i, j \in DOMAIN emitted :
        (/\ emitted[i].domain = emitted[j].domain
         /\ emitted[i].matchType # "IP_MATCH"
         /\ emitted[j].matchType # "IP_MATCH") => i = j

\* ---- C31 ----
\* the values fingerprintSite(url) can store for url itself
OwnFields(url, fp) ==
    /\ fp.url = url
    /\ fp.ip \in {NoIP, AddressOf(Hostname(url))}
    /\ fp.domain \in {"", Hostname(url)}
    /\ fp.ssl \in {SslUnset, SslError} \cup SslOutcomes(Hostname(url))
    /\ fp.dom_hash \in {NullHash, calculateDOMHash(PageOf(url))}

\* C31: when calls of fingerprintSite on one CabalScraper overlap, the
\* fingerprint each returns has the url of its own argument and an ip, a
\* domain, ssl and structural fields that belong to that URL: no field one
\* call wrote is in the result of the other.
C31_ResultBelongsToOwnCall ==
    \A c \in ScraperCallers :
        fpCalls[c].pc = "returned"
            => /\ fpCalls[c].ref = c
               /\ OwnFields(fpCalls[c].url, fpCalls[c].result)

\* ---- C32 ----
\* the data of url is in target_watchlist.json and cabal_profile.json
SavedOnDisk(url) ==
    /\ \E k \in DOMAIN watchlistFile.fingerprints :
          watchlistFile.fingerprints[k].url = url
    /\ Includes(profileFile.seed_urls, url)

\* C32: at every point of a research run every URL in the persisted
\* processed-URL ledger has its entry in the persisted watchlist and is
\* merged into the persisted profile.
C32_LedgerOnlyNamesSavedURLs ==
    \A i \in DOMAIN researchedFile : SavedOnDisk(researchedFile[i])

\* ---- C33 ----
\* C33: after any sequence of calls of profileSeedURLs the watchlist holds
\* at most one fingerprint entry per URL, watchlist.ips and
\* watchlist.subnets hold no value twice, and the subnet of every entry of
\* watchlist.ips is in watchlist.subnets.
C33_WatchlistWellFormed ==
    seedQueue = <<>> =>
        /\ \A i, j \in DOMAIN rmWatchlist.fingerprints :
              rmWatchlist.fingerprints[i].url = rmWatchlist.fingerprints[j].url
                  => i = j
        /\ NoDuplicates(rmWatchlist.ips)
        /\ NoDuplicates(rmWatchlist.subnets)
        /\ \A i \in DOMAIN rmWatchlist.ips :
              Includes(rmWatchlist.subnets, extractSubnet(rmWatchlist.ips[i]))

\* ---- C34 ----
\* a step of profileSeedURLs in which fingerprintSite returned a
\* fingerprint with an error for the first URL of the queue
FailedSeedStep ==
    /\ seedQueue # <<>>
    /\ seedQueue' # seedQueue
    /\ seedCall'.failed

\* the failed URL left Research Mode as it was and the run goes on with the
\* URLs after it; the files hold what they held or what memory holds
FailureChangesNothing ==
    /\ rmProfile' = rmProfile
    /\ rmWatchlist' = rmWatchlist
    /\ researchedURLs' = researchedURLs
    /\ researchedFile' = researchedFile
    /\ watchlistFile' \in {watchlistFile, rmWatchlist}
    /\ profileFile' \in {profileFile, rmProfile}
    /\ seedQueue' = Tail(seedQueue)

IntervalsActive == pingInterval \/ stallCheckInterval

\* a step that creates the two intervals: the 'open' event of a transport
IntervalsCreated == wsState # "open" /\ wsState' = "open"

\* C35 as stated: in one connect() lifecycle at most one ping interval and
\* one stall-check interval are active (none is active when 'open' creates
\* them), both are active only while the transport is open, and both are
\* cleared before a reconnect is scheduled or the retries are exhausted.
C35_IntervalsOnlyWhileOpen ==
    /\ [](IntervalsActive => wsState = "open")
    /\ []((reconnectTimer # 0 \/ Terminal) => ~IntervalsActive)
    /\ [][IntervalsCreated => ~IntervalsActive]_vars

\* C35, amended: the intervals are active only from the 'open' event of a
\* transport to its 'close' event, so also while the transport is closing
\* (after an error, disconnect() or terminate()); none is active when
\* 'open' creates them, and none is active once the transport has closed,
\* a reconnect is scheduled or the retries are exhausted.
C35_IntervalsFromOpenToClose ==
    /\ [](IntervalsActive =>
            /\ wsState \in {"open", "closing"}
            /\ wsOpened
            /\ pingInterval /\ stallCheckInterval)
    /\ []((reconnectTimer # 0 \/ Terminal \/ wsState = "closed")
            => ~IntervalsActive)
    /\ [][IntervalsCreated => ~IntervalsActive]_vars

\* a transport opened by a reconnect attempt is closing, its intervals
\* still active
C35_IntervalsActiveWhileClosing ==
    /\ wsState = "closing"
    /\ wsIsRetry
    /\ pingInterval /\ stallCheckInterval

\* ---- C36 ----
\* C36: under fairness and without disconnect() the listener does not stay
\* in the reconnecting state forever: once connect() was called it is
\* eventually connected or has exhausted its retries, from every state.
C36_EventuallyConnectedOrExhausted ==
    [](started => <>(isConnected \/ Terminal))

\* the retries were exhausted after reconnect attempts that all failed
C36_ExhaustedAfterRetries ==
    /\ Terminal
    /\ maxRetries = DEFAULT_MAX_RETRIES
    /\ failedReconnects = DEFAULT_MAX_RETRIES
    /\ ~isConnected

\* ---- C37 ----
\* a step in which an alert was emitted and writing it to the alert file
\* failed
SaveFailedStep == emitted' # emitted /\ alertsFile' = alertsFile

\* the execution that classified lastClass'.domain in this step had
\* domains left to classify after it
DomainsLeft(h) ==
    /\ Head(h.doms) = lastClass'.domain
    /\ h.leaf = lastClass'.leaf
    /\ SkipFiltered(Tail(h.doms)) # <<>>

\* C37: a failure while handling one domain of a certificate (saveAlert
\* throws) does not prevent the remaining domains of the certificate from
\* being classified: the execution stays in flight with the domains left.
C37_FailureKeepsRemainingDomains ==
    [][SaveFailedStep =>
         \A i \in DOMAIN inflight :
             DomainsLeft(inflight[i]) => Len(inflight') = Len(inflight)]_vars

\* ---- C38 ----
\* C38: after any sequence of startPolling() and stopPolling() at most one
\* poll loop is active: at most one execution of poll() is running or
\* waiting for its timer.
C38_AtMostOnePollLoop == Len(polls) <= 1

\* ---- C39 ----
\* C39: the bridge hands certificates to onCertificate in ascending
\* cert_index order and each at most once across all polls, also when
\* marking a certificate as processed fails; lastProcessedCertIndex never
\* decreases and is the index of a certificate that was handed out and
\* marked.
C39_AscendingAtMostOnce ==
    /\ [](\A i, j \in DOMAIN handed : i < j => handed[i] < handed[j])
    /\ [](lastProcessedCertIndex # NoIndex =>
            /\ certificates[lastProcessedCertIndex] = "processed"
            /\ \E i \in DOMAIN handed : handed[i] = lastProcessedCertIndex)
    /\ [][lastProcessedCertIndex' >= lastProcessedCertIndex]_vars

====
